---- MODULE Spec2Model ----
(***************************************************************************)
(* Incremental crawl engine of deepghs/pyskeb, test/prepare: the five      *)
(* crawl functions crawl_bh_index, crawl_rb_index, mhs_newest_crawl,       *)
(* skb_newest_crawl and mhs_project_order_crawl, run one after another     *)
(* against one remote dataset repository.                                  *)
(***************************************************************************)
EXTENDS Integers, Sequences, FiniteSets, TLC

----------------------------------------------------------------------------
\* Bounds of the model

\* remote identifiers are IdBase .. IdBase+NumIds-1 (9, 10: their decimal
\* strings do not sort like the numbers)
IdBase == 9
NumIds == 2
\* a listing page holds at most PageLen items
PageLen == 1
\* number of successive invocations against the same repository
MaxRuns == 2
\* pp.py: number of source repositories listed by list_datasets
NumRepos == 5
\* client.py: number of works the remote listing /api/works holds
ListLen == 4
\* client.py: the count of 429 answers to one request is kept up to MaxTries
MaxTries == 2
\* the text of exist_ids.json has at most MaxText characters
MaxText == 5
\* max_cnt / maxcnt is drawn from 0..MaxCnt
MaxCnt == 2
\* mhs session model: largest maxcnt, most candidates of a listing page
MhsMaxCnt == 11
MhsPageLen == 2
\* link archive: number of resources the links found in posts lead to
NumRes == 2

Ids == IdBase..(IdBase + NumIds - 1)
Crawlers == {"bh", "rb", "mhs", "skb", "order"}
IndexCrawlers == {"bh", "rb"}
PackCrawlers == {"mhs", "skb", "order"}

----------------------------------------------------------------------------
\* Program constants (scaled where the source value is out of reach)

\* bh/index.py:38   max_time_limit = 50 * 60, as one tick of the clock: the
\* clock tells whether the budget is used up and stops there
max_time_limit == 1
\* bh/index.py:118  `current_tag_count > all_tag_count * 0.95`, as the
\* fraction BH_SAT_NUM / BH_SAT_DEN (0.95 scaled to 1/2)
BH_SAT_NUM == 1
BH_SAT_DEN == 2
\* bh/index.py:118  `current_tag_count >= 95000` (scaled)
BH_CAP == 2
\* rb/index.py:116  `current_tag_count > all_tag_count * 0.99` (scaled to 1/2)
RB_SAT_NUM == 1
RB_SAT_DEN == 2
\* rb/index.py:116  `current_tag_count >= 195000` (scaled)
RB_CAP == 2
\* mhs/newest.py:62  max_page_limit = 1000 (scaled)
max_page_limit == 2
\* mhs/newest.py:81  `if retries > 5`
MAX_REFRESH_TRY == 5
\* mhs/newest.py:298 `current_count % 10 == 0`
REFRESH_EVERY == 10
\* skb/newest.py:115 max_count_limit=1000 (scaled)
max_count_limit == 3
\* client.py:30  get_page(offset, limit=90) (scaled)
get_page_limit == 2
\* pp.py:37  interval = 5
interval == 5
\* pp.py:39  total = 5
total == 5

----------------------------------------------------------------------------
\* Remote items.  An item is immutable once fetched: its tag list is a
\* function of its id.

TagNames == {"a", "A", "b"}

\* str.lower()
Lower(t) == IF t = "A" THEN "a" ELSE t

\* the tag tokens of an item, in the order the remote lists them:
\* one item lists a tag in two casings, the others list a tag twice
ItemTags(i) ==
    CASE (i - IdBase) % 3 = 0 -> <<"a", "A">>
      [] (i - IdBase) % 3 = 1 -> <<"a", "a">>
      [] OTHER                -> <<"b", "b">>

\* index_tags.csv (written by the tag crawlers): available posts per tag
all_tags_count_map == [t \in TagNames |->
    CASE t = "a" -> 4
      [] OTHER   -> 2]

Range(s) == {s[k] : k \in 1..Len(s)}

Min(a, b) == IF a < b THEN a ELSE b

\* all sequences over S of length at most n
RECURSIVE SeqsUpTo(_, _)
SeqsUpTo(S, n) ==
    IF n = 0 THEN {<<>>}
    ELSE LET shorter == SeqsUpTo(S, n - 1)
         IN shorter \cup {Append(s, x) : s \in shorter, x \in S}

\* the answers a listing request can give
Pages == SeqsUpTo(Ids, PageLen)

----------------------------------------------------------------------------
\* Identifier keys and sorting

\* decimal digits of a natural number
RECURSIVE Digits(_)
Digits(n) == IF n < 10 THEN <<n>> ELSE Append(Digits(n \div 10), n % 10)

\* str < str for two digit strings behind a common prefix
\* ('artwork_10' < 'artwork_8')
RECURSIVE LexLess(_, _)
LexLess(s, t) ==
    IF t = <<>> THEN FALSE
    ELSE IF s = <<>> THEN TRUE
    ELSE IF Head(s) # Head(t) THEN Head(s) < Head(t)
    ELSE LexLess(Tail(s), Tail(t))

\* order of two identifiers as the crawler c stores them: bh/rb keep the
\* integer item['id'], the others the string f'artwork_{item_id}' etc.
IdLess(c, x, y) ==
    IF c \in IndexCrawlers THEN x < y ELSE LexLess(Digits(x), Digits(y))

\* variant: json.dump(list(exist_ids)) without sorted(): the ids in some set
\* order (here: descending)
RECURSIVE ListedIds(_, _)
ListedIds(c, S) ==
    IF S = {} THEN <<>>
    ELSE LET m == CHOOSE x \in S : \A y \in S \ {x} : IdLess(c, y, x)
         IN <<m>> \o ListedIds(c, S \ {m})

\* sorted(exist_ids)
RECURSIVE SortedIds(_, _)
SortedIds(c, S) ==
    IF S = {} THEN <<>>
    ELSE LET m == CHOOSE x \in S : \A y \in S \ {x} : IdLess(c, x, y)
         IN <<m>> \o SortedIds(c, S \ {m})

\* insertion of a record into a list sorted by integer id (stable)
InsertById(r, s, desc) ==
    LET Before(e) == IF desc THEN e.id >= r.id ELSE e.id <= r.id
        After(e)  == ~Before(e)
    IN SelectSeq(s, Before) \o <<r>> \o SelectSeq(s, After)

\* df.sort_values(['id'], ascending=not desc) / sorted(.., key=id)
RECURSIVE SortById(_, _)
SortById(s, desc) ==
    IF s = <<>> THEN <<>>
    ELSE InsertById(s[Len(s)], SortById(SubSeq(s, 1, Len(s) - 1), desc), desc)

----------------------------------------------------------------------------
\* Tag tables

NoTag == "-"

\* str < str on tag names (ASCII: 'A' < 'a' < 'b'); a mhs tag item is named by
\* its id, and the ids are in the order of these names
NameRank(t) == CASE t = "A" -> 0 [] t = "a" -> 1 [] OTHER -> 2

\* the type column of a mhs tag item: "a" and "A" are curated tags of two
\* types, "b" is a free-form tag
TagType(t) ==
    CASE t = "a" -> "style"
      [] t = "A" -> "character"
      [] OTHER   -> "custom_tag"

\* str < str on the type names
TypeRank(ty) ==
    CASE ty = "character" -> 0
      [] ty = "custom_tag" -> 1
      [] OTHER             -> 2

\* sorted(set(filter(bool, re.split(r'\s+', item['tags'].strip()))))
item_tags(i) == Range(ItemTags(i))

\* tags = {titem['name']: titem for titem in df_.to_dict('records')},
\* as name -> count with 0 for a name that has no entry
TagsFromRows(rows) ==
    [t \in TagNames |->
        IF \E k \in 1..Len(rows) : rows[k].name = t
        THEN rows[CHOOSE k \in 1..Len(rows) :
                    /\ rows[k].name = t
                    /\ \A j \in (k + 1)..Len(rows) : rows[j].name # t].count
        ELSE 0]

\* the sort keys of the exported tags.csv
\*   bh, rb: sort_values(['count', 'name'], ascending=[False, True])
\*   skb:    key (-count, name)
\*   mhs:    key (1 if custom else 0, (-count, id) if custom else (type, id))
RowLess(c, x, y) ==
    IF c = "mhs"
    THEN LET cx == IF TagType(x.name) = "custom_tag" THEN 1 ELSE 0
             cy == IF TagType(y.name) = "custom_tag" THEN 1 ELSE 0
         IN \/ cx < cy
            \/ /\ cx = cy
               /\ IF cx = 1
                  THEN \/ x.count > y.count
                       \/ x.count = y.count /\ NameRank(x.name) < NameRank(y.name)
                  ELSE LET tx == TypeRank(TagType(x.name))
                           ty == TypeRank(TagType(y.name))
                       IN \/ tx < ty
                          \/ tx = ty /\ NameRank(x.name) < NameRank(y.name)
    ELSE \/ x.count > y.count
         \/ x.count = y.count /\ NameRank(x.name) < NameRank(y.name)

\* variant: the rows are written in the order of the table
UnsortedRows(c, rows) == rows

\* a stable sort of tag rows by RowLess
RECURSIVE SortRows(_, _)
SortRows(c, rows) ==
    IF rows = <<>> THEN <<>>
    ELSE LET m == CHOOSE k \in 1..Len(rows) :
                    /\ \A j \in 1..Len(rows) : ~RowLess(c, rows[j], rows[k])
                    /\ \A j \in 1..(k - 1) : RowLess(c, rows[k], rows[j])
             rest == [j \in 1..(Len(rows) - 1) |->
                        IF j < m THEN rows[j] ELSE rows[j + 1]]
         IN <<rows[m]>> \o SortRows(c, rest)

\* list(tags.values()) of the bh/rb tag dict
TagRows(tg) ==
    LET present == {t \in TagNames : tg[t] > 0}
        RECURSIVE Build(_)
        Build(S) == IF S = {} THEN <<>>
                    ELSE LET t == CHOOSE x \in S : \A y \in S : NameRank(x) <= NameRank(y)
                         IN <<[name |-> t, count |-> tg[t]]>> \o Build(S \ {t})
    IN Build(present)

\* tags_analysis: occurrences of tag t over the tag lists of all records
RECURSIVE Occurrences(_, _)
Occurrences(s, t) ==
    IF s = <<>> THEN 0
    ELSE (IF Head(s) = t THEN 1 ELSE 0) + Occurrences(Tail(s), t)

RECURSIVE tags_analysis(_, _)
tags_analysis(recs, t) ==
    IF recs = <<>> THEN 0
    ELSE Occurrences(Head(recs).tags, t) + tags_analysis(Tail(recs), t)

\* for tag_item in all_tags: tag_item['count'] = tags_analysis.get(.., 0)
Recount(rows, recs) ==
    [k \in 1..Len(rows) |->
        [name |-> rows[k].name, count |-> tags_analysis(recs, rows[k].name)]]

----------------------------------------------------------------------------
\* State

VARIABLES
    crawler,        \* which crawl function the repository is fed by
    store,          \* the remote dataset repository (persisted artifacts)
    run,            \* number of the current invocation
    pc,             \* position of the invocation
    max_cnt,        \* argument max_cnt / maxcnt
    quit_page_when_exist,   \* argument of crawl_bh_index / crawl_rb_index
    use_random,     \* argument of mhs_newest_crawl / skb_newest_crawl
    now,            \* time.time() - start_time, in ticks
    exist_ids,      \* exist_ids / exist_sids
    records,        \* records (bh, rb) / all_artworks (mhs, skb)
    tags,           \* tags dict of bh, rb: name -> count
    all_tags,       \* all_tags list of mhs, skb
    all_tags_map,   \* skb: lowered name -> name of the table entry
    pack_rows,      \* number of rows of records.csv (mhs, skb, order)
    queue,          \* skb work queue
    queue_suit_ids, \* skb: references in the queue
    inc_v,          \* skb: Inc.v, the queue cursor
    q_pending,      \* skb: the queue generator is suspended at its yield
    img_dir,        \* media files downloaded in this run
    cnt,            \* cnt / current_count
    has_new,        \* order: has_new
    src,            \* the source of the chain being pulled
    lst,            \* the rest of the listing page being iterated
    page,           \* mhs: page of iter_artwork_ids_from_page
    taken,          \* skb: items islice has let through
    retries,        \* mhs: consecutive 403 answers
    tag_pool,       \* bh, rb: all_tags of _iter_from_random_ids
    current_tag,    \* bh, rb: current_tag
    processed,      \* history: ids handed to the record accumulator, in order
    gone,           \* history: ids that got a definitive-skip outcome
    failed,         \* history: ids whose last fetch failed transiently
    late,           \* history: candidate fetches issued after the deadline
    saw_new,        \* history: the sources surfaced an unseen id
    sel_count,      \* history: count of current_tag when it was selected
    dup_skipped,    \* history: a candidate already processed in this run
                    \* was surfaced again
    left_by,        \* history: why the crawl loop was left
    faulty,         \* history: a request or the upload failed in this run
    uploaded,       \* history: this run has uploaded its export
    store0,         \* history: the repository when this run started
    page_missed,    \* history: ids the sequential pager yielded to the running
                    \* loop that are still unseen
    inv,            \* the invocations that run side by side on one repository
    pp,             \* pp.py: the local state of the packing script
    remote_repo,    \* pp.py: the repository remote_repo it uploads to
    skeb,           \* client.py: a list_newest_posts iteration in progress
    load,           \* exist_ids.json as text, and what the load makes of it
    sess,           \* mhs: the requests and session refreshes of one crawl
    hub             \* process.py, repack.py: the repository of the link archive
                    \* and the calls of try_process_url and repack_all

args  == <<max_cnt, quit_page_when_exist, use_random>>
mem   == <<exist_ids, records, tags, all_tags, all_tags_map, pack_rows,
           img_dir, cnt, has_new>>
qvars == <<queue, queue_suit_ids, inc_v, q_pending>>
gen   == <<src, lst, page, taken, retries, tag_pool, current_tag>>
runh  == <<uploaded, store0>>
hist  == <<processed, gone, failed, late, saw_new, sel_count,
           dup_skipped, left_by, faulty, runh, page_missed>>
\* state of the specifications that do not run the crawl functions one
\* after another
aux   == <<inv, pp, remote_repo, skeb, load, sess, hub>>
vars  == <<crawler, store, run, pc, now, args, mem, qvars, gen, hist, aux>>

\* the repository before the first run: no artifact exists
EmptyStore ==
    [ids     |-> <<>>,      \* exist_ids.json / exist_sids.json
     records |-> <<>>,      \* 3dbooru.csv / realbooru.csv / artworks.json
     tags    |-> <<>>,      \* tags.csv
     rows    |-> 0,         \* records.csv: one row per pack
     packs   |-> 0,         \* packs/*.zip
     queue   |-> <<>>]      \* queue.json

NoMap == [n \in {"a", "b"} |-> NoTag]

\* two invocations of one crawl function at the same time
Procs == {1, 2}

\* pp.py: the names of the source repositories
Repos == 1..NumRepos

\* pp.py before the script is started
PpIdle == [pc |-> "idle", run |-> 0, exist_names |-> {}, cnt |-> 0,
           save_dir |-> {}, todo |-> {}]

\* pp.py: remote_repo before the first run: no exist_names.json, no pack;
\* packs[k] is the set of names in pack_k.zip, uploads counts the uploads of
\* pack_k.zip
EmptyRemote ==
    [exist_names |-> {},
     packs       |-> [k \in 1..(NumRepos \div interval) |-> {}],
     uploads     |-> [k \in 1..(NumRepos \div interval) |-> 0]]

\* client.py, listing.py: list_newest_posts before its first item is asked
\* for.  items: what is left of the page being yielded; n_items: len(items)
\* of that page; status, cookie: the last answer to _session.get; tries: 429
\* answers to the request in progress; requested, yielded: the offsets asked
\* for and the works yielded so far; limit: the argument of list_newest_posts
SkebIdle ==
    [pc |-> "idle", limit |-> 0, offset |-> 0, items |-> <<>>, n_items |-> 0,
     status |-> 0, cookie |-> FALSE, tries |-> 0,
     requested |-> <<>>, yielded |-> <<>>]

\* exist_ids.json before anything is known of it
NoFile == [pc |-> "none", exists |-> FALSE, text |-> <<>>, exist_ids |-> {}]

\* an invocation that has not been called yet has no local state
\* mhs/newest.py:131-136: mhs_newest_crawl before it is called.  retries: the
\* local counter of homepage and of the pager; items: candidates left of the
\* page held by the pager; rot: refresh calls made for a 403 answer since the
\* last answer that was not a 403; refreshed: the refresh call of the last
\* step; late: the time limit has passed
SessIdle ==
    [pc |-> "idle", maxcnt |-> 0, use_random |-> FALSE, src |-> "page",
     page |-> 1, retries |-> 0, items |-> 0, current_count |-> 0,
     rot |-> 0, refreshed |-> "no", late |-> FALSE]

\* process.py:64: resource ids; NoRid is the None of a link without one
Rids == 1..NumRes
NoRid == 0
\* lololo.py:17: the prefix f'{username}_{work_id}_' of the post a link is in
Prefixes == {"u_1_", "u_2_"}
\* process.py:40-42: the underline names of the files a download can write
FileNames == {"x", "y"}
\* a <resource_id>.zip: its entries are named prefix + name (process.py:42-43)
\* and hold the bytes of the resource it was made from; NoZip: no such file
NoZip == [prefix |-> "", names |-> {}]
\* repack.py:22-23: dd_dir before anything is extracted; a directory maps the
\* names of its files, <<prefix, name>>, to the resource whose bytes they hold
EmptyDir == [e \in {} |-> NoRid]
\* a folder without a zip: a folder maps the resource ids of its zips to them
NoZips == [r \in {} |-> NoZip]

\* process.py, repack.py: the repository _REPOSITORY before it exists, with no
\* call of try_process_url (tpu) or repack_all (rpk) made: a call that is not
\* in progress has no local state.  uploads: the resources upload_file was
\* called for; packs: the packs under packs/, oldest first; index: the rows
\* of index.json
HubIdle ==
    [exists |-> FALSE,
     unarchived |-> NoZips,
     archived |-> NoZips,
     packs |-> <<>>,
     index |-> <<>>,
     uploads |-> <<>>,
     tpu |-> [pc |-> "idle"],
     rpk |-> [pc |-> "idle"]]

Idle == [pc |-> "idle"]

Init ==
    /\ crawler \in Crawlers
    /\ store = EmptyStore
    /\ run = 1
    /\ pc = "start"
    /\ max_cnt = 0
    /\ quit_page_when_exist = TRUE
    /\ use_random = TRUE
    /\ now = 0
    /\ exist_ids = {}
    /\ records = <<>>
    /\ tags = [t \in TagNames |-> 0]
    /\ all_tags = <<>>
    /\ all_tags_map = NoMap
    /\ pack_rows = 0
    /\ queue = <<>>
    /\ queue_suit_ids = {}
    /\ inc_v = 0
    /\ q_pending = FALSE
    /\ img_dir = {}
    /\ cnt = 0
    /\ has_new = FALSE
    /\ src = "page"
    /\ lst = <<>>
    /\ page = 1
    /\ taken = 0
    /\ retries = 0
    /\ tag_pool = {}
    /\ current_tag = NoTag
    /\ processed = <<>>
    /\ gone = {}
    /\ failed = {}
    /\ late = 0
    /\ saw_new = FALSE
    /\ sel_count = 0
    /\ dup_skipped = FALSE
    /\ left_by = ""
    /\ faulty = FALSE
    /\ uploaded = FALSE
    /\ store0 = EmptyStore
    /\ page_missed = {}
    /\ inv = [p \in Procs |-> Idle]
    /\ pp = PpIdle
    /\ remote_repo = EmptyRemote
    /\ skeb = SkebIdle
    /\ load = NoFile
    /\ sess = SessIdle
    /\ hub = HubIdle

\* the clock after a request that took dt ticks
Tick(dt) == Min(now + dt, max_time_limit)

\* time.time() - start_time >= max_time_limit
TimeUp(t) == t >= max_time_limit

\* a candidate fetch issued now counts as late when the deadline has passed
\* (late = 2 stands for two or more)
LateAfterFetch == IF TimeUp(now) THEN Min(late + 1, 2) ELSE late

----------------------------------------------------------------------------
\* The loop body of a crawler maps the part of the state it works on to the
\* set of its possible results (one per answer of the remote).

Cur ==
    [exist_ids |-> exist_ids, records |-> records, tags |-> tags,
     all_tags |-> all_tags, all_tags_map |-> all_tags_map,
     img_dir |-> img_dir, cnt |-> cnt, has_new |-> has_new,
     queue |-> queue, queue_suit_ids |-> queue_suit_ids,
     pc |-> pc, now |-> now,
     processed |-> processed, gone |-> gone, failed |-> failed, late |-> late,
     left_by |-> left_by]

Apply(n) ==
    /\ exist_ids' = n.exist_ids
    /\ records' = n.records
    /\ tags' = n.tags
    /\ all_tags' = n.all_tags
    /\ all_tags_map' = n.all_tags_map
    /\ img_dir' = n.img_dir
    /\ cnt' = n.cnt
    /\ has_new' = n.has_new
    /\ queue' = n.queue
    /\ queue_suit_ids' = n.queue_suit_ids
    /\ pc' = n.pc
    /\ now' = n.now
    /\ processed' = n.processed
    /\ gone' = n.gone
    /\ failed' = n.failed
    /\ late' = n.late
    /\ left_by' = n.left_by

\* page_missed after a run of the loop body that gave n: the ids of `add`
\* join it, the ids now seen leave it, and nothing is kept of it when the
\* loop has been left
Missed(n, add) ==
    IF n.pc = "pull" THEN (page_missed \cup add) \ n.exist_ids ELSE {}

\* `break`: the crawl loop is left
Break(m, why) == [m EXCEPT !.pc = "final", !.left_by = why]

\* an exception leaves the crawl function
Raise(m) == [m EXCEPT !.pc = "crashed", !.left_by = "raise"]

\* a detail / enrichment request issued at m.now that takes dt ticks
Fetched(m, dt) ==
    [m EXCEPT !.now = Min(m.now + dt, max_time_limit),
              !.late = IF TimeUp(m.now) THEN Min(m.late + 1, 2) ELSE m.late]

\* variant: cnt += 1 without exist_ids.add(id)
SeenNotAdded(m, i) ==
    [m EXCEPT !.cnt = @ + 1,
              !.failed = @ \ {i}]

\* exist_ids.add(id); cnt += 1
Seen(m, i) ==
    [m EXCEPT !.exist_ids = @ \cup {i},
              !.cnt = @ + 1,
              !.failed = @ \ {i}]

\* variant: a definitive skip marks the id seen and leaves the counter
MarkSeenUncounted(m, i) ==
    [m EXCEPT !.exist_ids = @ \cup {i}, !.gone = @ \cup {i}, !.failed = @ \ {i}]

\* the same after a definitive-skip answer: no record is created
MarkSeen(m, i) == [Seen(m, i) EXCEPT !.gone = @ \cup {i}]

\* the fetch of i failed transiently: `continue`
Transient(m, i) == [m EXCEPT !.failed = @ \cup {i}]

\* bh/index.py:164-184, rb/index.py:199-222: the record is appended, each of
\* the item's distinct tags is counted once, the id is marked seen
IndexConfirm(m, i) ==
    [Seen(m, i) EXCEPT
         !.records = Append(@, [id |-> i, tags |-> ItemTags(i)]),
         !.tags = [t \in TagNames |->
                       IF t \in item_tags(i) THEN @[t] + 1 ELSE @[t]],
         !.processed = Append(@, i)]

\* variant: the body may leave an unseen candidate for a later offer
bh_loop_body_retry(m, i) ==
    IF m.cnt >= max_cnt
    THEN {Break(m, "count")}
    ELSE IF TimeUp(m.now)
    THEN {Break(m, "time")}
    ELSE IF i \in m.exist_ids
    THEN {m}
    ELSE {Transient(m, i), IndexConfirm(m, i)}

\* crawl_bh_index: body of `for item in source`
bh_loop_body(m, i) ==
    IF m.cnt >= max_cnt
    THEN {Break(m, "count")}
    ELSE IF TimeUp(m.now)
    THEN {Break(m, "time")}
    ELSE IF i \in m.exist_ids
    THEN {m}
    ELSE {IndexConfirm(m, i)}

\* crawl_rb_index: body of `for item in source`
rb_loop_body(m, i) ==
    IF m.cnt >= max_cnt
    THEN {Break(m, "count")}
    ELSE IF TimeUp(m.now)
    THEN {Break(m, "time")}
    ELSE IF i \in m.exist_ids
    THEN {m}
    ELSE \* not item["hash"] or not item["image"]
         {MarkSeen(m, i)}
         \cup
         \* limiter.try_acquire('access'); url = s._select_url(item)
         UNION {
            { MarkSeen(Fetched(m, dt), i),          \* NoURL
              Transient(Fetched(m, dt), i),         \* RequestException
              IndexConfirm(Fetched(m, dt), i) }     \* url selected
            : dt \in 0..1 }

\* all_tag_ids of mhs_newest_crawl: the ids of the rows of all_tags
all_tag_ids(rows) == {rows[k].name : k \in 1..Len(rows)}

\* mhs/newest.py:276-280: every tag item of the artwork not yet in the table
\* is appended to it
RECURSIVE MergeTagItems(_, _)
MergeTagItems(rows, ts) ==
    IF ts = <<>> THEN rows
    ELSE MergeTagItems(
            IF Head(ts) \in all_tag_ids(rows) THEN rows
            ELSE Append(rows, [name |-> Head(ts), count |-> 0]),
            Tail(ts))

\* variant: the record is appended and the id is not added to exist_sids
MhsConfirmUnmarked(m, i) ==
    [m EXCEPT
         !.cnt = @ + 1,
         !.all_tags = MergeTagItems(@, ItemTags(i)),
         !.records = Append(@, [id |-> i, tags |-> ItemTags(i)]),
         !.img_dir = @ \cup {i},
         !.processed = Append(@, i)]

\* mhs/newest.py:276-291 after a successful download
MhsConfirm(m, i) ==
    [Seen(m, i) EXCEPT
         !.all_tags = MergeTagItems(@, ItemTags(i)),
         !.records = Append(@, [id |-> i, tags |-> ItemTags(i)]),
         !.img_dir = @ \cup {i},
         !.processed = Append(@, i)]

\* a download that raised: the target file may have been left behind
DownloadFailed(m, i) ==
    {Transient(m, i), [Transient(m, i) EXCEPT !.img_dir = @ \cup {i}]}

\* mhs/newest.py:293-301: the checks that follow exist_sids.add(suit_id)
\* (client.refresh() every REFRESH_EVERY items changes no crawl state)
MhsAfter(m) ==
    IF m.cnt >= max_cnt THEN Break(m, "count")
    ELSE IF TimeUp(m.now) THEN Break(m, "time")
    ELSE m

\* mhs_newest_crawl: body of `for item_id in id_source`
mhs_loop_body(m, i) ==
    IF TimeUp(m.now)
    THEN {Break(m, "time")}
    ELSE IF i \in m.exist_ids
    THEN {m}
    ELSE UNION {
        LET f == Fetched(m, dt)
        IN  {Transient(f, i)}                       \* RequestException
            \cup {f}                                \* 403: refresh, continue
            \cup {MhsAfter(Seen(f, i))}             \* 401
            \cup {MhsAfter(MarkSeen(f, i))}         \* 404, 423
            \cup {Raise(f)}      \* other status: `err` is unbound
            \cup DownloadFailed(f, i)               \* 2xx, download raised
            \cup {MhsAfter(MhsConfirm(f, i))}       \* 2xx, downloaded
        : dt \in 0..1 }

\* skb/newest.py:150-154: the words of the cleaned body of post i, lowered
BodyWords(i) == {"a", "b"}

\* tags = [tag for tag in info['tag_list'] if tag.lower() in cleaned_body.lower()]
BodyTags(i) ==
    LET InBody(t) == Lower(t) \in BodyWords(i)
    IN SelectSeq(ItemTags(i), InBody)

\* skb/newest.py:155-165: each tag is resolved against all_tags_map by its
\* lowered name; an unknown one is appended to all_tags and to the map.
\* acc = [all_tags, all_tags_map, final_tags]
\* variant: the tag is looked up under its own spelling
RECURSIVE ResolveTagsExact(_, _)
ResolveTagsExact(acc, ts) ==
    IF ts = <<>> THEN acc
    ELSE LET tag == Head(ts)
         IN IF \E k \in 1..Len(acc.all_tags) : acc.all_tags[k].name = tag
            THEN ResolveTagsExact(
                    [acc EXCEPT !.final_tags = Append(@, tag)], Tail(ts))
            ELSE ResolveTagsExact(
                    [all_tags     |-> Append(acc.all_tags, [name |-> tag, count |-> 0]),
                     all_tags_map |-> acc.all_tags_map,
                     final_tags   |-> Append(acc.final_tags, tag)],
                    Tail(ts))

RECURSIVE ResolveTags(_, _)
ResolveTags(acc, ts) ==
    IF ts = <<>> THEN acc
    ELSE LET tag == Head(ts)
             low == Lower(tag)
         IN IF acc.all_tags_map[low] # NoTag
            THEN ResolveTags(
                    [acc EXCEPT !.final_tags = Append(@, acc.all_tags_map[low])],
                    Tail(ts))
            ELSE ResolveTags(
                    [all_tags     |-> Append(acc.all_tags, [name |-> tag, count |-> 0]),
                     all_tags_map |-> [acc.all_tags_map EXCEPT ![low] = tag],
                     final_tags   |-> Append(acc.final_tags, tag)],
                    Tail(ts))

\* info['similar_works'] of post i: none, or the post with the next id
SimilarWorks(i) == {<<>>, <<IdBase + ((i - IdBase + 1) % NumIds)>>}

\* variant: a similar work is queued unless it is in the queue
RECURSIVE EnqueueSeenToo(_, _)
EnqueueSeenToo(m, sim) ==
    IF sim = <<>> THEN m
    ELSE EnqueueSeenToo(
            IF Head(sim) \notin m.queue_suit_ids
            THEN [m EXCEPT !.queue_suit_ids = @ \cup {Head(sim)},
                           !.queue = Append(@, Head(sim))]
            ELSE m,
            Tail(sim))

\* skb/newest.py:179-187: the similar works not seen and not queued are queued
RECURSIVE Enqueue(_, _)
Enqueue(m, sim) ==
    IF sim = <<>> THEN m
    ELSE Enqueue(
            IF Head(sim) \notin m.exist_ids /\ Head(sim) \notin m.queue_suit_ids
            THEN [m EXCEPT !.queue_suit_ids = @ \cup {Head(sim)},
                           !.queue = Append(@, Head(sim))]
            ELSE m,
            Tail(sim))

\* skb/newest.py:150-207 for a post with a client and an article image;
\* a download that raises is logged and the post is recorded all the same
SkbConfirm(m, i, downloaded, left_file, sim) ==
    LET r == ResolveTags([all_tags |-> m.all_tags,
                          all_tags_map |-> m.all_tags_map,
                          final_tags |-> <<>>], BodyTags(i))
        q == Enqueue(m, sim)
        a == [q EXCEPT
                !.all_tags = r.all_tags,
                !.all_tags_map = r.all_tags_map,
                !.img_dir = IF downloaded \/ left_file THEN @ \cup {i} ELSE @,
                !.records = Append(@, [id |-> i, tags |-> r.final_tags]),
                !.processed = Append(@, i)]
    IN IF downloaded THEN Seen(a, i)
       ELSE [Seen(a, i) EXCEPT !.failed = @ \cup {i}]

\* variant: `current_count > maxcnt`
SkbAfterOffByOne(m) ==
    IF m.cnt > max_cnt THEN Break(m, "count")
    ELSE IF TimeUp(m.now) THEN Break(m, "time")
    ELSE m

\* skb/newest.py:205-211
SkbAfter(m) ==
    IF m.cnt >= max_cnt THEN Break(m, "count")
    ELSE IF TimeUp(m.now) THEN Break(m, "time")
    ELSE m

\* skb_newest_crawl: body of `for username, post_id in id_source`
skb_loop_body(m, i) ==
    IF i \in m.exist_ids
    THEN {m}
    ELSE UNION {
        LET f == Fetched(m, dt)
        IN  {Raise(f)}           \* client.get_post raised
            \cup {SkbAfter(Seen(f, i))}             \* no client / no article image
            \cup {SkbAfter(SkbConfirm(f, i, TRUE, FALSE, sim))
                    : sim \in SimilarWorks(i)}
            \cup {SkbAfter(SkbConfirm(f, i, FALSE, lf, sim))
                    : lf \in BOOLEAN, sim \in SimilarWorks(i)}
        : dt \in 0..1 }

\* mhs/order.py:137-189 when the project request succeeded; files: some
\* example or card image was downloaded and kept
OrderConfirm(m, i, files) ==
    [Seen(m, i) EXCEPT
         !.img_dir = IF files THEN @ \cup {i} ELSE @,
         !.processed = Append(@, i)]

\* mhs/order.py:205-212
OrderAfter(m) ==
    LET n == [m EXCEPT !.has_new = TRUE]
    IN IF n.cnt >= max_cnt THEN Break(n, "count")
       ELSE IF TimeUp(n.now) THEN Break(n, "time")
       ELSE n

\* mhs_project_order_crawl: body of `while True`
order_loop_body(m, i) ==
    IF i \in m.exist_ids
    THEN {m}
    ELSE UNION {
        LET f == Fetched(m, dt)
        IN  {Raise(f)}           \* a non-HTTP request error
            \cup {Transient(f, i)}                  \* other HTTP status: continue
            \cup {OrderAfter(Seen(f, i))}           \* 401, 403
            \cup {OrderAfter(MarkSeen(f, i))}       \* 404, 423
            \cup {OrderAfter(OrderConfirm(f, i, fl)) : fl \in BOOLEAN}
        : dt \in 0..1 }

\* the key under which the loop body acquires its limiter before the detail
\* request of a candidate: rb/index.py:186 limiter.try_acquire('access'),
\* mhs/newest.py:236 limiter.try_acquire('info'); skb/newest.py:129
\* (client.get_post) and mhs/order.py:138 (session.get) acquire none
detail_limiter(c) ==
    CASE c = "rb"  -> "access"
      [] c = "mhs" -> "info"
      [] OTHER     -> NoTag

\* the loop body of crawler c
loop_body(c, m, i) ==
    CASE c = "bh"  -> bh_loop_body(m, i)
      [] c = "rb"  -> rb_loop_body(m, i)
      [] c = "mhs" -> mhs_loop_body(m, i)
      [] c = "skb" -> skb_loop_body(m, i)
      [] OTHER     -> order_loop_body(m, i)

----------------------------------------------------------------------------
\* Start of an invocation

\* all_tags_map = {tag_item['name'].lower(): tag_item for tag_item in all_tags}
MapFromRows(rows) ==
    [n \in {"a", "b"} |->
        IF \E k \in 1..Len(rows) : Lower(rows[k].name) = n
        THEN rows[CHOOSE k \in 1..Len(rows) :
                    /\ Lower(rows[k].name) = n
                    /\ \A j \in (k + 1)..Len(rows) : Lower(rows[j].name) # n].name
        ELSE NoTag]

\* the persisted artifacts, read at the start of the crawl function
LoadState ==
    /\ exist_ids' = Range(store.ids)
    /\ records' = IF crawler = "order" THEN <<>> ELSE store.records
    /\ tags' = IF crawler \in IndexCrawlers THEN TagsFromRows(store.tags)
               ELSE [t \in TagNames |-> 0]
    /\ all_tags' = IF crawler \in {"mhs", "skb"} THEN store.tags ELSE <<>>
    /\ all_tags_map' = IF crawler = "skb" THEN MapFromRows(store.tags) ELSE NoMap
    /\ pack_rows' = store.rows
    /\ queue' = IF crawler = "skb" THEN store.queue ELSE <<>>
    /\ queue_suit_ids' = IF crawler = "skb" THEN Range(store.queue) ELSE {}

\* what is local to one invocation, before anything is loaded
ResetRun ==
    /\ now' = 0
    /\ img_dir' = {}
    /\ cnt' = 0
    /\ has_new' = FALSE
    /\ inc_v' = 0
    /\ q_pending' = FALSE
    /\ src' = IF crawler = "order" THEN "random" ELSE "page"
    /\ lst' = <<>>
    /\ page' = 1
    /\ taken' = 0
    /\ retries' = 0
    /\ tag_pool' = {}
    /\ current_tag' = NoTag
    /\ processed' = <<>>
    /\ gone' = {}
    /\ failed' = {}
    /\ late' = 0
    /\ saw_new' = FALSE
    /\ sel_count' = 0
    /\ dup_skipped' = FALSE
    /\ left_by' = ""
    /\ faulty' = FALSE
    /\ uploaded' = FALSE
    /\ store0' = store
    /\ page_missed' = {}

\* mhs/newest.py:195-198 random.choice of an empty min_names raises when
\*                       tags.csv holds custom tags only;
\* mhs/newest.py:214-222 max() of an empty all_artworks raises;
\* skb/newest.py:119-122 the 1-tuple id_source cannot be unpacked
SourceChainFails(c, rnd, st) ==
    \/ /\ c = "mhs"
       /\ st.tags # <<>>
       /\ \A k \in 1..Len(st.tags) : TagType(st.tags[k].name) = "custom_tag"
    \/ c = "mhs" /\ rnd /\ st.records = <<>>
    \/ c = "skb" /\ ~rnd

\* a crawl function is called: bh, rb and skb load the persisted state at
\* once, mhs and order first access the site
StartRun ==
    /\ \/ pc = "start"
       \/ pc \in {"done", "crashed"} /\ run < MaxRuns
    /\ run' = IF pc = "start" THEN run ELSE run + 1
    /\ max_cnt' \in 0..MaxCnt
    /\ quit_page_when_exist' \in
            (IF crawler \in IndexCrawlers THEN BOOLEAN ELSE {TRUE})
    /\ use_random' \in
            (IF crawler \in {"mhs", "skb"} THEN BOOLEAN ELSE {TRUE})
    /\ ResetRun
    /\ LoadState
    /\ pc' = IF crawler \in {"mhs", "order"} THEN "access"
             ELSE IF SourceChainFails(crawler, use_random', store) THEN "crashed"
             ELSE "pull"
    /\ UNCHANGED <<aux, crawler, store>>

\* MHSSession.homepage (mhs/newest.py:101-119) and the first request of
\* mhs_project_order_crawl (mhs/order.py:88-89)
Access ==
    /\ pc = "access"
    /\ \/ \* 2xx
          /\ pc' = IF SourceChainFails(crawler, use_random, store)
                   THEN "crashed" ELSE "pull"
          /\ retries' = 0
          /\ UNCHANGED faulty
       \/ \* 403 on the homepage: refresh and retry, IpStopped after the budget
          /\ crawler = "mhs"
          /\ IF retries + 1 > MAX_REFRESH_TRY
             THEN pc' = "crashed" /\ retries' = 0
             ELSE pc' = pc /\ retries' = retries + 1
          /\ faulty' = TRUE
       \/ \* raise_for_status()
          /\ pc' = "crashed"
          /\ retries' = 0
          /\ faulty' = TRUE
    /\ left_by' = IF pc' = "crashed" THEN "raise" ELSE left_by
    /\ UNCHANGED <<aux, crawler, store, run, now, args, mem, qvars,
                   src, lst, page, taken, tag_pool, current_tag,
                   processed, gone, failed, late, saw_new, sel_count,
                   dup_skipped, runh, page_missed>>

----------------------------------------------------------------------------
\* The page sources

\* bh/index.py:118, rb/index.py:116: the saturation test of a tag with
\* accumulated count n
Saturated(c, t, n) ==
    IF c = "bh"
    THEN n * BH_SAT_DEN > all_tags_count_map[t] * BH_SAT_NUM \/ n >= BH_CAP
    ELSE n * RB_SAT_DEN > all_tags_count_map[t] * RB_SAT_NUM \/ n >= RB_CAP

\* all_tags of _iter_from_random_ids when the generator starts:
\* bh/index.py:109; rb/index.py:108 and 124 (filtered by _check_tags)
InitialPool(c, tg) ==
    LET named == {t \in TagNames : all_tags_count_map[t] >= 1}
    IN IF c = "bh" THEN named
       ELSE {t \in named : ~Saturated(c, t, tg[t])}

\* the sequential pager of bh/rb returns: the chain goes on with
\* _iter_from_random_ids
EnterRandom ==
    /\ src' = "random"
    /\ lst' = <<>>
    /\ tag_pool' = InitialPool(crawler, tags)
    /\ current_tag' = NoTag

\* one listing request of the sequential pager:
\*   bh/index.py:78-98 and rb/index.py:72-97 (_iter_items_from_pages),
\*   mhs/newest.py:65-99 (iter_artwork_ids_from_page),
\*   pyskeb/client/client.py:21-49 with prepare/listing.py:10-15
PageRequest ==
    /\ pc = "pull"
    /\ src = "page"
    /\ lst = <<>>
    /\ crawler = "mhs" => page <= max_page_limit
    /\ crawler = "skb" => taken < max_count_limit
    /\ late' = LateAfterFetch
    /\ \E dt \in 0..1 : now' = Tick(dt)
    /\ \/ \* the request failed or was answered with an error status
          /\ CASE crawler \in IndexCrawlers ->
                    /\ EnterRandom
                    /\ UNCHANGED <<pc, page, retries, left_by>>
               [] crawler = "mhs" ->
                    /\ page' = page + 1
                    /\ retries' = 0
                    /\ UNCHANGED <<pc, src, lst, tag_pool, current_tag, left_by>>
               [] OTHER ->
                    /\ pc' = "crashed"
                    /\ left_by' = "raise"
                    /\ UNCHANGED <<src, lst, page, retries, tag_pool, current_tag>>
          /\ faulty' = TRUE
       \/ \* 403 (mhs): refresh and retry the page, IpStopped after the budget
          /\ crawler = "mhs"
          /\ IF retries + 1 > MAX_REFRESH_TRY
             THEN pc' = "final" /\ left_by' = "abort"
             ELSE pc' = pc /\ left_by' = left_by
          /\ retries' = retries + 1
          /\ faulty' = TRUE
          /\ UNCHANGED <<src, lst, page, tag_pool, current_tag>>
       \/ \* 429 (skb): SkebClient._get repeats the request
          /\ crawler = "skb"
          /\ faulty' = TRUE
          /\ UNCHANGED <<pc, src, lst, page, retries, tag_pool, current_tag,
                         left_by>>
       \/ \* a page of items
          \E resp \in Pages :
            /\ lst' = resp
            /\ src' = IF crawler = "skb" /\ resp = <<>> THEN "queue" ELSE src
            /\ page' = IF crawler = "mhs" THEN page + 1 ELSE page
            /\ retries' = 0
            /\ UNCHANGED <<pc, tag_pool, current_tag, left_by, faulty>>
    /\ UNCHANGED <<aux, crawler, store, run, args, mem, qvars, taken,
                   processed, gone, failed, saw_new, sel_count,
                   dup_skipped, runh, page_missed>>

\* the generator looks at the next item of the page it holds and, unless it
\* filters the item out, yields it to the crawl loop, which runs its body
NextItem ==
    /\ pc = "pull"
    /\ lst # <<>>
    /\ crawler = "skb" => taken < max_count_limit
    /\ LET h == Head(lst)
           seen == h \in exist_ids
           filtered == crawler \in IndexCrawlers /\ seen
       IN /\ saw_new' = (saw_new \/ ~seen)
          /\ dup_skipped' = (dup_skipped \/ h \in Range(processed))
          /\ taken' = IF crawler = "skb" THEN taken + 1 ELSE taken
          /\ IF filtered /\ src = "page" /\ quit_page_when_exist
             THEN EnterRandom
             ELSE /\ lst' = Tail(lst)
                  /\ UNCHANGED <<src, tag_pool, current_tag>>
          /\ \E n \in (IF filtered THEN {Cur} ELSE loop_body(crawler, Cur, h)) :
                /\ Apply(n)
                /\ page_missed' =
                      Missed(n, IF src = "page" /\ ~seen THEN {h} ELSE {})
    /\ UNCHANGED <<aux, crawler, store, run, args, pack_rows, inc_v, q_pending,
                   page, retries, sel_count, faulty, runh>>

\* bh/index.py:111-124, rb/index.py:126-130: a tag is drawn from the pool
PickTag ==
    /\ pc = "pull"
    /\ src = "random"
    /\ crawler \in IndexCrawlers
    /\ current_tag = NoTag
    /\ lst = <<>>
    /\ \E t \in tag_pool :
         IF Saturated(crawler, t, tags[t])
         THEN /\ tag_pool' = tag_pool \ {t}
              /\ UNCHANGED <<current_tag, sel_count>>
         ELSE /\ current_tag' = t
              /\ sel_count' = tags[t]
              /\ UNCHANGED tag_pool
    /\ UNCHANGED <<aux, crawler, store, run, pc, now, args, mem, qvars,
                   src, lst, page, taken, retries,
                   processed, gone, failed, late, saw_new,
                   dup_skipped, left_by, faulty, runh, page_missed>>

\* the posts the remote lists under tag t
TagPages(t) == SeqsUpTo({i \in Ids : t \in item_tags(i)}, PageLen)

\* a page request whose failure or empty page leaves the tag in the pool
TagPageRequestKeepsTag ==
    /\ pc = "pull"
    /\ src = "random"
    /\ current_tag # NoTag
    /\ lst = <<>>
    /\ late' = LateAfterFetch
    /\ \E dt \in 0..1 : now' = Tick(dt)
    /\ \/ /\ current_tag' = NoTag
          /\ UNCHANGED <<tag_pool, lst>>
       \/ \E resp \in TagPages(current_tag) \ {<<>>} :
            /\ lst' = resp
            /\ UNCHANGED <<tag_pool, current_tag>>
    /\ UNCHANGED <<aux, crawler, store, run, pc, args, mem, qvars,
                   src, page, taken, retries,
                   processed, gone, failed, saw_new, sel_count,
                   dup_skipped, left_by, faulty, runh, page_missed>>

\* bh/index.py:126-149, rb/index.py:133-161: one page request for current_tag
TagPageRequest ==
    /\ pc = "pull"
    /\ src = "random"
    /\ current_tag # NoTag
    /\ lst = <<>>
    /\ late' = LateAfterFetch
    /\ \E dt \in 0..1 : now' = Tick(dt)
    /\ \/ \* the request failed, or the page is empty
          /\ tag_pool' = tag_pool \ {current_tag}
          /\ current_tag' = NoTag
          /\ UNCHANGED lst
       \/ \E resp \in TagPages(current_tag) \ {<<>>} :
            /\ lst' = resp
            /\ UNCHANGED <<tag_pool, current_tag>>
    /\ UNCHANGED <<aux, crawler, store, run, pc, args, mem, qvars,
                   src, page, taken, retries,
                   processed, gone, failed, saw_new, sel_count,
                   dup_skipped, left_by, faulty, runh, page_missed>>

\* max(item['id'] for item in all_artworks), mhs/newest.py:215
current_max_id(recs) ==
    CHOOSE x \in {recs[k].id : k \in 1..Len(recs)} :
        \A k \in 1..Len(recs) : recs[k].id <= x

\* mhs/newest.py:125-127 (_iter_artwork_ids_randomly) and mhs/order.py:130:
\* a random id is drawn and the loop body runs on it
RandomId ==
    /\ pc = "pull"
    /\ src = "random"
    /\ crawler \in {"mhs", "order"}
    /\ \E i \in (IF crawler = "mhs"
                 THEN {j \in Ids : j <= current_max_id(store.records)}
                 ELSE Ids) :
         /\ saw_new' = (saw_new \/ i \notin exist_ids)
         /\ dup_skipped' = (dup_skipped \/ i \in Range(processed))
         /\ \E n \in loop_body(crawler, Cur, i) :
                Apply(n) /\ page_missed' = Missed(n, {})
    /\ UNCHANGED <<aux, crawler, store, run, args, pack_rows, inc_v, q_pending,
                   gen, sel_count, faulty, runh>>

\* skb/newest.py:37-41 (_iter_artwork_ids_in_queue): on resumption the cursor
\* is advanced past the reference yielded before, then the next one is yielded
QueueStep ==
    /\ pc = "pull"
    /\ src = "queue"
    /\ LET v == IF q_pending THEN inc_v + 1 ELSE inc_v
       IN /\ inc_v' = v
          /\ IF v < Len(queue)
             THEN /\ q_pending' = TRUE
                  /\ saw_new' = (saw_new \/ queue[v + 1] \notin exist_ids)
                  /\ dup_skipped' = (dup_skipped \/ queue[v + 1] \in Range(processed))
                  /\ \E n \in loop_body(crawler, Cur, queue[v + 1]) :
                        Apply(n) /\ page_missed' = Missed(n, {})
             ELSE /\ q_pending' = FALSE
                  /\ UNCHANGED <<saw_new, dup_skipped>>
                  /\ Apply(Break(Cur, "end"))
                  /\ page_missed' = {}
    /\ UNCHANGED <<aux, crawler, store, run, args, pack_rows,
                   gen, sel_count, faulty, runh>>

\* a source of the chain ends without yielding:
\*   mhs/newest.py:98-99   page > max_page_limit
\*   listing.py:11         islice has let `limit` items through
\*   bh/index.py:112       random.choice of an empty pool raises IndexError
\*   rb/index.py:126       `while all_tags` ends
SourceEnd ==
    /\ pc = "pull"
    /\ CASE crawler = "mhs" ->
                /\ src = "page" /\ lst = <<>> /\ page > max_page_limit
                /\ IF use_random
                   THEN src' = "random" /\ pc' = pc
                   ELSE src' = src /\ pc' = "final"
                /\ UNCHANGED lst
         [] crawler = "skb" ->
                /\ src = "page" /\ taken >= max_count_limit
                /\ src' = "queue"
                /\ lst' = <<>>
                /\ UNCHANGED pc
         [] crawler \in IndexCrawlers ->
                /\ src = "random" /\ current_tag = NoTag /\ lst = <<>>
                /\ tag_pool = {}
                /\ pc' = IF crawler = "bh" THEN "crashed" ELSE "final"
                /\ UNCHANGED <<src, lst>>
         [] OTHER -> FALSE
    /\ left_by' = IF pc' = "final" THEN "end"
                  ELSE IF pc' = "crashed" THEN "raise" ELSE left_by
    /\ page_missed' = IF pc' = "pull" THEN page_missed ELSE {}
    /\ UNCHANGED <<aux, crawler, store, run, now, args, mem, qvars,
                   page, taken, retries, tag_pool, current_tag,
                   processed, gone, failed, late, saw_new, sel_count,
                   dup_skipped, faulty, runh>>

----------------------------------------------------------------------------
\* Export

\* variant: only the ids seen in this run are written to exist_ids.json
ExportedRunOnly(c) ==
    [store EXCEPT
        !.ids = SortedIds(c, exist_ids \ Range(store.ids)),
        !.rows = pack_rows + 1,
        !.packs = @ + 1]

\* what upload_directory_as_directory puts into the repository
\*   bh/index.py:186-231, rb/index.py:224-266
\*   mhs/newest.py:310-394, skb/newest.py:218-291, mhs/order.py:217-263
Exported(c) ==
    CASE c \in IndexCrawlers ->
            [store EXCEPT
                !.ids = SortedIds(c, exist_ids),
                !.records = SortById(records, TRUE),
                !.tags = SortRows(c, TagRows(tags))]
      [] c = "mhs" ->
            [store EXCEPT
                !.ids = SortedIds(c, exist_ids),
                !.records = SortById(records, FALSE),
                !.tags = SortRows(c, Recount(all_tags, records)),
                !.rows = pack_rows + 1,
                !.packs = @ + 1]
      [] c = "skb" ->
            [store EXCEPT
                !.ids = SortedIds(c, exist_ids),
                !.records = SortById(records, FALSE),
                !.tags = SortRows(c, Recount(all_tags, records)),
                !.rows = pack_rows + 1,
                !.packs = @ + 1,
                !.queue = SubSeq(queue, inc_v + 1, Len(queue))]
      [] OTHER ->
            [store EXCEPT
                !.ids = SortedIds(c, exist_ids),
                !.rows = IF img_dir # {} THEN pack_rows + 1 ELSE pack_rows,
                !.packs = IF img_dir # {} THEN @ + 1 ELSE @]

\* mhs/newest.py:306-308, skb/newest.py:214-216: `No images found, quit.`
QuitsWithoutExport(c) == c \in {"mhs", "skb"} /\ img_dir = {}

\* pandas raises KeyError when a column of an empty frame is sorted by or
\* selected:
\*   bh/index.py:187-188,193-194 and rb/index.py:225-226,231-232
\*   mhs/newest.py:362-363 (df_date) and 385 (t_df_tags['type'])
\*   skb/newest.py:282 (t_df_tags['count'])
\*   mhs/order.py:243-244
ExportRaises(c) ==
    \/ c \in IndexCrawlers /\ (records = <<>> \/ TagRows(tags) = <<>>)
    \/ c = "mhs" /\ (records = <<>> \/ all_tags = <<>>)
    \/ c = "skb" /\ all_tags = <<>>
    \/ c = "order" /\ img_dir = {} /\ pack_rows = 0

\* the code after the crawl loop
Finalize ==
    /\ pc = "final"
    /\ IF QuitsWithoutExport(crawler)
       THEN pc' = "done" /\ UNCHANGED <<store, uploaded, faulty>>
       ELSE IF ExportRaises(crawler)
       THEN pc' = "crashed" /\ UNCHANGED <<store, uploaded, faulty>>
       ELSE \/ /\ pc' = "done"
               /\ store' = Exported(crawler)
               /\ uploaded' = TRUE
               /\ UNCHANGED faulty
            \/ \* the upload raised
               /\ pc' = "crashed"
               /\ faulty' = TRUE
               /\ UNCHANGED <<store, uploaded>>
    /\ UNCHANGED <<aux, crawler, run, now, args, mem, qvars, gen,
                   processed, gone, failed, late, saw_new, sel_count,
                   dup_skipped, left_by, store0, page_missed>>

----------------------------------------------------------------------------

Next ==
    \/ StartRun
    \/ Access
    \/ PageRequest
    \/ NextItem
    \/ PickTag
    \/ TagPageRequest
    \/ RandomId
    \/ QueueStep
    \/ SourceEnd
    \/ Finalize

Spec == Init /\ [][Next]_vars

----------------------------------------------------------------------------
\* Two invocations of the same crawl function at the same time on one
\* repository.  Each has its own local state inv[p]; the sources are taken as
\* what they may yield: any id, in any order.

\* the persisted artifacts as invocation p reads them when it is called
\*   bh/index.py:51-69, skb/newest.py:56-72
Loaded(c, st) ==
    [exist_ids |-> Range(st.ids),
     records |-> IF c = "order" THEN <<>> ELSE st.records,
     tags |-> IF c \in IndexCrawlers THEN TagsFromRows(st.tags)
              ELSE [t \in TagNames |-> 0],
     all_tags |-> IF c \in {"mhs", "skb"} THEN st.tags ELSE <<>>,
     all_tags_map |-> IF c = "skb" THEN MapFromRows(st.tags) ELSE NoMap,
     queue |-> IF c = "skb" THEN st.queue ELSE <<>>,
     queue_suit_ids |-> IF c = "skb" THEN Range(st.queue) ELSE {},
     pack_rows |-> st.rows,
     img_dir |-> {}, cnt |-> 0, has_new |-> FALSE, now |-> 0,
     processed |-> <<>>, gone |-> {}, failed |-> {}, late |-> 0,
     left_by |-> "", pc |-> "pull"]

\* what the export of an invocation with local state m puts into the
\* repository st (the files of the upload replace those of the repository)
ExportOf(c, st, m) ==
    CASE c \in IndexCrawlers ->
            [st EXCEPT
                !.ids = SortedIds(c, m.exist_ids),
                !.records = SortById(m.records, TRUE),
                !.tags = SortRows(c, TagRows(m.tags))]
      [] c = "mhs" ->
            [st EXCEPT
                !.ids = SortedIds(c, m.exist_ids),
                !.records = SortById(m.records, FALSE),
                !.tags = SortRows(c, Recount(m.all_tags, m.records)),
                !.rows = m.pack_rows + 1,
                !.packs = @ + 1]
      [] c = "skb" ->
            [st EXCEPT
                !.ids = SortedIds(c, m.exist_ids),
                !.records = SortById(m.records, FALSE),
                !.tags = SortRows(c, Recount(m.all_tags, m.records)),
                !.rows = m.pack_rows + 1,
                !.packs = @ + 1,
                !.queue = m.queue]
      [] OTHER ->
            [st EXCEPT
                !.ids = SortedIds(c, m.exist_ids),
                !.rows = IF m.img_dir # {} THEN m.pack_rows + 1 ELSE m.pack_rows,
                !.packs = IF m.img_dir # {} THEN @ + 1 ELSE @]

\* the export of an invocation with local state m is not reached
\* (`No images found, quit.`) or raises (an empty frame)
NoExportOf(c, m) ==
    \/ c \in {"mhs", "skb"} /\ m.img_dir = {}
    \/ c \in IndexCrawlers /\ (m.records = <<>> \/ TagRows(m.tags) = <<>>)
    \/ c = "mhs" /\ (m.records = <<>> \/ m.all_tags = <<>>)
    \/ c = "skb" /\ m.all_tags = <<>>
    \/ c = "order" /\ m.img_dir = {} /\ m.pack_rows = 0

\* invocation p is called and loads the persisted state; both invocations
\* are called with the same arguments
ConcLoad(p) ==
    /\ inv[p].pc = "idle"
    /\ inv' = [inv EXCEPT ![p] = Loaded(crawler, store)]
    /\ IF \A q \in Procs : inv[q].pc = "idle"
       THEN max_cnt' \in 1..MaxCnt
       ELSE UNCHANGED max_cnt
    /\ UNCHANGED <<crawler, store, run, pc, now, quit_page_when_exist,
                   use_random, mem, qvars, gen, hist,
                   pp, remote_repo, skeb, load, sess, hub>>

\* the sources of invocation p yield an id and its loop body runs
ConcCrawl(p) ==
    /\ inv[p].pc = "pull"
    /\ \E i \in Ids : \E n \in loop_body(crawler, inv[p], i) :
            inv' = [inv EXCEPT ![p] = n]
    /\ UNCHANGED <<crawler, store, run, pc, now, args, mem, qvars, gen, hist,
                   pp, remote_repo, skeb, load, sess, hub>>

\* the sources of invocation p are exhausted
ConcEnd(p) ==
    /\ inv[p].pc = "pull"
    /\ inv' = [inv EXCEPT ![p] = Break(@, "end")]
    /\ UNCHANGED <<crawler, store, run, pc, now, args, mem, qvars, gen, hist,
                   pp, remote_repo, skeb, load, sess, hub>>

\* the code of invocation p after its crawl loop
ConcExport(p) ==
    /\ inv[p].pc = "final"
    /\ inv' = [inv EXCEPT ![p].pc = "done"]
    /\ store' = IF NoExportOf(crawler, inv[p]) THEN store
                ELSE ExportOf(crawler, store, inv[p])
    /\ UNCHANGED <<crawler, run, pc, now, args, mem, qvars, gen, hist,
                   pp, remote_repo, skeb, load, sess, hub>>

ConcNext ==
    \E p \in Procs :
        \/ ConcLoad(p)
        \/ ConcCrawl(p)
        \/ ConcEnd(p)
        \/ ConcExport(p)

SpecConc == Init /\ [][ConcNext]_vars

----------------------------------------------------------------------------
\* pp.py: the packing script.  It exports the images of source repositories
\* into save_dir and, every `interval` exported names, uploads save_dir as a
\* pack and then writes exist_names.json.

\* the state of the crawl functions
base == <<crawler, store, run, pc, now, args, mem, qvars, gen, hist>>

\* pp.py:27-41 and 64-66: the script is started
PpStart ==
    /\ pp.pc \in {"idle", "done", "crashed"}
    /\ pp.run < MaxRuns
    /\ pp' = [pc |-> "loop", run |-> pp.run + 1,
              exist_names |-> remote_repo.exist_names,
              cnt |-> Cardinality(remote_repo.exist_names),
              save_dir |-> {}, todo |-> Repos]
    /\ UNCHANGED <<remote_repo, base, inv, skeb, load, sess, hub>>

\* pp.py:68-123, 137-138: one pass of `for ritem in all_repos`
PpVisit ==
    /\ pp.pc = "loop"
    /\ \E r \in pp.todo :
        LET q == [pp EXCEPT !.todo = @ \ {r}]
            e == [q EXCEPT !.cnt = @ + 1,
                           !.exist_names = @ \cup {r},
                           !.save_dir = @ \cup {r}]
        IN \/ pp' = q                     \* no data pack in the repository
           \/ /\ r \in pp.exist_names     \* already crawled
              /\ pp' = q
           \/ /\ r \notin pp.exist_names
              /\ \/ pp' = [q EXCEPT !.pc = "crashed"]   \* the download raised
                 \/ \* not enough images, or the duration is too short
                    pp' = [q EXCEPT !.exist_names = @ \cup {r}]
                 \/ \* exported
                    pp' = [e EXCEPT !.pc =
                                IF e.cnt % interval = 0 THEN "upload"
                                ELSE IF e.cnt >= total THEN "done"
                                ELSE "loop"]
    /\ UNCHANGED <<remote_repo, base, inv, skeb, load, sess, hub>>

\* pp.py:68: all_repos is used up
PpEndLoop ==
    /\ pp.pc = "loop"
    /\ pp.todo = {}
    /\ pp' = [pp EXCEPT !.pc = "done"]
    /\ UNCHANGED <<remote_repo, base, inv, skeb, load, sess, hub>>

\* pp.py:124-130: upload_directory_as_archive
PpUpload ==
    /\ pp.pc = "upload"
    /\ LET k == pp.cnt \div interval
       IN \/ /\ remote_repo' = [remote_repo EXCEPT
                                    !.packs[k] = pp.save_dir,
                                    !.uploads[k] = Min(@ + 1, MaxRuns)]
             /\ pp' = [pp EXCEPT !.pc = "write"]
          \/ \* the upload raised
             /\ pp' = [pp EXCEPT !.pc = "crashed"]
             /\ UNCHANGED remote_repo
    /\ UNCHANGED <<base, inv, skeb, load, sess, hub>>

\* pp.py:131-138: hf_fs_2.write_text of exist_names.json, shutil.rmtree
PpWrite ==
    /\ pp.pc = "write"
    /\ \/ /\ remote_repo' = [remote_repo EXCEPT !.exist_names = pp.exist_names]
          /\ pp' = [pp EXCEPT !.save_dir = {},
                              !.pc = IF pp.cnt >= total THEN "done" ELSE "loop"]
       \/ \* write_text raised
          /\ pp' = [pp EXCEPT !.pc = "crashed"]
          /\ UNCHANGED remote_repo
    /\ UNCHANGED <<base, inv, skeb, load, sess, hub>>

PpNext ==
    \/ PpStart
    \/ PpVisit
    \/ PpEndLoop
    \/ PpUpload
    \/ PpWrite

SpecPp == Init /\ [][PpNext]_vars

----------------------------------------------------------------------------
\* SkebClient (pyskeb/client/client.py) under list_newest_posts
\* (prepare/listing.py): the works of the remote listing are 1..ListLen, the
\* work at offset k is k + 1.

\* listing.py:10-11, client.py:41-42: list_newest_posts(limit) is called and
\* its first item is asked for; islice(.., 0) ends at once
ClientStart ==
    /\ skeb.pc = "idle"
    /\ \E l \in 0..(ListLen + 1) :
            skeb' = [skeb EXCEPT !.limit = l,
                                 !.pc = IF l = 0 THEN "done" ELSE "get"]
    /\ UNCHANGED <<base, inv, pp, remote_repo, load, sess, hub>>

\* client.py:21-28 under get_page (30-39) and iter_art_pages (44-49): one
\* _session.get of the page at skeb.offset and what _get does with the answer
ClientGet ==
    /\ skeb.pc = "get"
    /\ \/ \* 429 with a request_key cookie: `continue`
          skeb' = [skeb EXCEPT !.status = 429, !.cookie = TRUE,
                               !.tries = Min(@ + 1, MaxTries)]
       \/ \* another answer that is not ok: raise_for_status() raises
          \E st \in {429, 500} :
            skeb' = [skeb EXCEPT !.status = st, !.cookie = FALSE,
                                 !.pc = "raised"]
       \/ \* 2xx: resp.json() is the page, a list of at most `limit` works
          \E n \in 0..Min(get_page_limit, ListLen - skeb.offset) :
            skeb' = [skeb EXCEPT
                        !.status = 200, !.cookie = FALSE, !.tries = 0,
                        !.requested = Append(@, skeb.offset),
                        !.items = [k \in 1..n |-> skeb.offset + k],
                        !.n_items = n,
                        !.pc = IF n = 0 THEN "done" ELSE "yield"]
    /\ UNCHANGED <<base, inv, pp, remote_repo, load, sess, hub>>

\* a yield that asks for the next page before the limit is looked at
ClientYieldEager ==
    /\ skeb.pc = "yield"
    /\ LET y == Append(skeb.yielded, Head(skeb.items))
       IN skeb' = [skeb EXCEPT
                     !.yielded = y,
                     !.items = Tail(@),
                     !.offset = IF Len(skeb.items) = 1
                                THEN @ + skeb.n_items ELSE @,
                     !.pc = IF Len(skeb.items) = 1 THEN "get"
                            ELSE IF Len(y) >= skeb.limit THEN "done"
                            ELSE "yield"]
    /\ UNCHANGED <<base, inv, pp, remote_repo, load, sess, hub>>

\* client.py:45-49 `yield from items` through islice(.., limit) of
\* listing.py:11: a work is yielded; after the last one of the page the
\* offset is advanced by len(items)
ClientYield ==
    /\ skeb.pc = "yield"
    /\ LET y == Append(skeb.yielded, Head(skeb.items))
       IN skeb' = [skeb EXCEPT
                     !.yielded = y,
                     !.items = Tail(@),
                     !.offset = IF Len(skeb.items) = 1
                                THEN @ + skeb.n_items ELSE @,
                     !.pc = IF Len(y) >= skeb.limit THEN "done"
                            ELSE IF Len(skeb.items) = 1 THEN "get"
                            ELSE "yield"]
    /\ UNCHANGED <<base, inv, pp, remote_repo, load, sess, hub>>

ClientNext ==
    \/ ClientStart
    \/ ClientGet
    \/ ClientYield

\* the client is the one of skb_newest_crawl
ClientInit == Init /\ crawler = "skb"

SpecClient == ClientInit /\ [][ClientNext]_vars

----------------------------------------------------------------------------
\* The load of the DedupIndex from its persisted form, a text:
\*   exist_ids = set(json.loads(hf_fs.read_text(.../exist_ids.json)))

\* json.loads: the position behind the JSON value (a number or an array)
\* that starts at t[i], 0 when no value starts there
RECURSIVE JsonEnd(_, _)
RECURSIVE ItemsEnd(_, _)
JsonEnd(t, i) ==
    IF i > Len(t) THEN 0
    ELSE IF t[i] = "9"
    THEN IF i < Len(t) /\ t[i + 1] = "9" THEN JsonEnd(t, i + 1) ELSE i + 1
    ELSE IF t[i] = "["
    THEN IF i < Len(t) /\ t[i + 1] = "]" THEN i + 2 ELSE ItemsEnd(t, i + 1)
    ELSE 0

\* the same for the items of an array behind its `[` or a `,`
ItemsEnd(t, i) ==
    LET e == JsonEnd(t, i)
    IN IF e = 0 \/ e > Len(t) THEN 0
       ELSE IF t[e] = "," THEN ItemsEnd(t, e + 1)
       ELSE IF t[e] = "]" THEN e + 1
       ELSE 0

\* the number written by the digits of t from position i on
RECURSIVE NumberAt(_, _, _)
NumberAt(t, i, acc) ==
    IF i <= Len(t) /\ t[i] = "9" THEN NumberAt(t, i + 1, 10 * acc + 9) ELSE acc

\* set(json.loads(t)): the set of the numbers of an array of numbers; json.loads
\* raises on a text that is no JSON value, set() on a number and on an array
\* that holds an array
SetOfJson(t) ==
    IF /\ JsonEnd(t, 1) = Len(t) + 1
       /\ t[1] = "["
       /\ \A k \in 2..Len(t) : t[k] # "["
    THEN [ok |-> TRUE,
          ids |-> {NumberAt(t, k, 0) : k \in {j \in 2..Len(t) :
                                        t[j] = "9" /\ t[j - 1] # "9"}}]
    ELSE [ok |-> FALSE, ids |-> {}]

\* the repository holds no exist_ids.json, or one with some text over the
\* characters [ ] , 9
FileStored ==
    /\ load.pc = "none"
    /\ \/ load' = [load EXCEPT !.pc = "stored"]
       \/ \E t \in SeqsUpTo({"[", "]", ",", "9"}, MaxText) :
            load' = [load EXCEPT !.pc = "stored", !.exists = TRUE, !.text = t]
    /\ UNCHANGED <<base, inv, pp, remote_repo, skeb, sess, hub>>

\* bh/index.py:51-54, mhs/newest.py:151-155, skb/newest.py:56-60
LoadExistIds ==
    /\ load.pc = "stored"
    /\ LET r == SetOfJson(load.text)
       IN load' = IF ~load.exists THEN [load EXCEPT !.pc = "loaded"]
                  ELSE IF r.ok
                  THEN [load EXCEPT !.pc = "loaded", !.exist_ids = r.ids]
                  ELSE [load EXCEPT !.pc = "raised"]
    /\ UNCHANGED <<base, inv, pp, remote_repo, skeb, sess, hub>>

LoadNext ==
    \/ FileStored
    \/ LoadExistIds

\* exist_ids.json holds numbers: the file of crawl_bh_index, crawl_rb_index
LoadInit == Init /\ crawler \in IndexCrawlers

SpecLoad == LoadInit /\ [][LoadNext]_vars

----------------------------------------------------------------------------
\* The session of mhs_newest_crawl: its requests, the 403 answers and the
\* calls of MHSSession.refresh.  What the crawl stores is left to the
\* specification of the crawl functions above.

others == <<base, inv, pp, remote_repo, skeb, load, hub>>

\* mhs/newest.py:38-59 MHSSession.refresh, called for `why`
refresh(s, why) ==
    [s EXCEPT !.refreshed = why,
              !.rot = IF why = "403" THEN Min(@ + 1, MAX_REFRESH_TRY + 1) ELSE @]

\* an answer that is not a 403 has arrived
Answered(s) == [s EXCEPT !.rot = 0]

\* mhs/newest.py:79-86 and 109-116: a 403 answer to homepage or to the pager
Forbidden(s, stopped) ==
    IF s.retries + 1 > MAX_REFRESH_TRY
    THEN [s EXCEPT !.retries = @ + 1, !.pc = stopped]   \* raise IpStopped
    ELSE refresh([s EXCEPT !.retries = @ + 1], "403")

\* the readings of `time.time() - start_time >= max_time_limit`
Clock(s) == {b \in BOOLEAN : s.late => b}

\* mhs/newest.py:131-136: the function is called
MhsCall ==
    /\ sess.pc = "idle"
    /\ \E n \in 0..MhsMaxCnt, rnd \in BOOLEAN :
         sess' = [sess EXCEPT !.pc = "home", !.maxcnt = n, !.use_random = rnd]
    /\ UNCHANGED others

\* mhs/newest.py:101-119 MHSSession.homepage; IpStopped raised here is not
\* caught by the `except IpStopped` of the crawl loop
homepage ==
    /\ sess.pc = "home"
    /\ LET s == [sess EXCEPT !.refreshed = "no"]
       IN \/ sess' = Forbidden(s, "raised")
          \/ sess' = Answered([s EXCEPT !.pc = "raised"])  \* raise_for_status
          \/ sess' = Answered([s EXCEPT !.pc = "pull", !.retries = 0])
    /\ UNCHANGED others

\* mhs/newest.py:61-99 iter_artwork_ids_from_page is resumed with no item
\* left, and 215-222: the random ids follow the pager when use_random
iter_artwork_ids_from_page ==
    /\ sess.pc = "pull"
    /\ sess.src = "page"
    /\ sess.items = 0
    /\ LET s == [sess EXCEPT !.refreshed = "no"]
       IN IF s.page > max_page_limit
          THEN sess' = IF s.use_random THEN [s EXCEPT !.src = "random"]
                       ELSE [s EXCEPT !.pc = "final"]
          ELSE \/ sess' = Forbidden(s, "final")        \* caught at 303-304
               \/ \* RequestException: the page is skipped
                  sess' = Answered([s EXCEPT !.page = @ + 1, !.retries = 0])
               \/ \E n \in 0..MhsPageLen :
                    sess' = Answered([s EXCEPT !.items = n, !.page = @ + 1,
                                               !.retries = 0])
    /\ UNCHANGED others

\* variant: the session is refreshed after every counted candidate
CountedRefreshEach(s, up) ==
    LET c == [s EXCEPT !.current_count = @ + 1, !.late = up]
    IN IF c.current_count >= c.maxcnt THEN [c EXCEPT !.pc = "final"]
       ELSE IF up THEN [refresh(c, "every") EXCEPT !.pc = "final"]
       ELSE [refresh(c, "every") EXCEPT !.pc = "pull"]

\* mhs/newest.py:293-301: the candidate is marked seen and counted
Counted(s, up) ==
    LET c == [s EXCEPT !.current_count = @ + 1, !.late = up]
    IN IF c.current_count >= c.maxcnt THEN [c EXCEPT !.pc = "final"]
       ELSE LET r == IF c.current_count % REFRESH_EVERY = 0
                     THEN refresh(c, "every") ELSE c
            IN IF up THEN [r EXCEPT !.pc = "final"]
               ELSE [r EXCEPT !.pc = "pull"]

\* mhs/newest.py:226-236: a candidate is yielded to the crawl loop: the time
\* test, the dedup test, limiter.try_acquire('info')
Candidate ==
    /\ sess.pc = "pull"
    /\ sess.items > 0 \/ sess.src = "random"
    /\ LET s == [sess EXCEPT !.refreshed = "no",
                             !.items = IF sess.src = "page" THEN @ - 1 ELSE @]
       IN \E up \in Clock(s) :
            \/ up /\ sess' = [s EXCEPT !.late = TRUE, !.pc = "final"]
            \/ ~up /\ sess' = s                          \* already crawled
            \/ ~up /\ sess' = [s EXCEPT !.pc = "detail"] \* limiter acquired
    /\ UNCHANGED others

\* mhs/newest.py:237-301: the detail request of the candidate and what
\* follows its answer
Detail ==
    /\ sess.pc = "detail"
    /\ LET s == [sess EXCEPT !.refreshed = "no"]
       IN \/ sess' = Answered([s EXCEPT !.pc = "pull"])   \* RequestException
          \/ sess' = refresh([s EXCEPT !.pc = "pull"], "403")
          \/ sess' = Answered([s EXCEPT !.pc = "raised"]) \* `err` is unbound
          \/ \* 2xx, the download raised
             sess' = Answered([s EXCEPT !.pc = "pull"])
          \/ \* 401, 404, 423, or 2xx and downloaded
             \E up \in Clock(s) : sess' = Counted(Answered(s), up)
    /\ UNCHANGED others

MhsNext ==
    \/ MhsCall
    \/ homepage
    \/ iter_artwork_ids_from_page
    \/ Candidate
    \/ Detail

MhsInit == Init /\ crawler = "mhs"

SpecMhs == MhsInit /\ [][MhsNext]_vars

----------------------------------------------------------------------------
\* The link archive (prepare/process.py, prepare/repack.py): try_process_url
\* stores the resource behind a link as unarchived/<resource_id>.zip, and
\* repack_all moves the zips of unarchived/ into one pack.  One call of each
\* may be in progress at a time, and their remote calls interleave.

rest == <<base, inv, pp, remote_repo, skeb, load, sess>>

\* a link: whether a site of KNOWN_SITES matches it (process.py:14-18, 63)
\* and what fn_rid makes of it (process.py:64)
Urls == [known : BOOLEAN, rid : Rids \cup {NoRid}]

\* process.py:62-69, 87-88: the resource id the loop over KNOWN_SITES settles
\* on; NoRid when no site matches or the matching site finds no id
resource_id(url) == IF url.known THEN url.rid ELSE NoRid

\* the zip of resource r in a folder
ZipOf(folder, r) == IF r \in DOMAIN folder THEN folder[r] ELSE NoZip

\* a lookup that lists unarchived/ only
glob_unarchived_only(h, r) == r \in DOMAIN h.unarchived

\* process.py:71  hf_fs.glob(f'datasets/{_REPOSITORY}/*/{resource_id}.zip')
glob_zip(h, r) == r \in DOMAIN h.unarchived \/ r \in DOMAIN h.archived

\* the files of the repository
Files(h) == <<h.exists, h.unarchived, h.archived, h.packs, h.index>>

\* process.py:53-73: try_process_url(url, prefix) up to the download: the
\* repository is created when .gitattributes is not there, the resource id is
\* settled and looked up
try_process_url ==
    /\ hub.tpu.pc = "idle"
    /\ \E url \in Urls, prefix \in Prefixes :
         LET r == resource_id(url)
         IN hub' = [hub EXCEPT
                !.exists = TRUE,
                !.tpu = IF r = NoRid \/ glob_zip(hub, r) THEN Idle
                        ELSE [pc |-> "fetch", rid |-> r, prefix |-> prefix]]
    /\ UNCHANGED rest

\* process.py:21-50 url_to_zip under process.py:75-84: fn_download writes the
\* files of the resource and they are zipped under their prefixed names; the
\* download may raise, and a download without files is an empty package
url_to_zip ==
    /\ hub.tpu.pc = "fetch"
    /\ \/ hub' = [hub EXCEPT !.tpu = Idle]
       \/ \E names \in SUBSET FileNames :
            hub' = [hub EXCEPT !.tpu =
                IF names = {} THEN Idle
                ELSE [pc |-> "upload", rid |-> hub.tpu.rid,
                      zip |-> [prefix |-> hub.tpu.prefix, names |-> names]]]
    /\ UNCHANGED rest

\* process.py:77-82  hf_client.upload_file to unarchived/<resource_id>.zip
upload_file ==
    /\ hub.tpu.pc = "upload"
    /\ hub' = [hub EXCEPT
            !.unarchived = [r \in DOMAIN @ \cup {hub.tpu.rid} |->
                                IF r = hub.tpu.rid THEN hub.tpu.zip ELSE @[r]],
            !.uploads = Append(@, hub.tpu.rid),
            !.tpu = Idle]
    /\ UNCHANGED rest

\* repack.py:26  hf_fs.glob(f'datasets/{_REPOSITORY}/unarchived/*.zip')
glob_unarchived(h) == DOMAIN h.unarchived

\* zipfile.extractall of the zip z of resource r into directory dd
\* (repack.py:36-37): a file that is there already is overwritten
extractall(dd, r, z) ==
    LET files == {z.prefix} \X z.names
    IN [e \in DOMAIN dd \cup files |-> IF e \in files THEN r ELSE dd[e]]

\* repack.py:72-73, 19-28: repack_all is called and lists unarchived/
repack_zips ==
    /\ hub.rpk.pc = "idle"
    /\ hub' = [hub EXCEPT !.rpk = [pc |-> "download",
                                   fns |-> glob_unarchived(hub),
                                   left |-> glob_unarchived(hub),
                                   dd |-> EmptyDir]]
    /\ UNCHANGED rest

\* repack.py:26-37: the next listed zip, in the order of the listing, is
\* downloaded and extracted into dd_dir; the download may raise
download_file ==
    /\ hub.rpk.pc = "download"
    /\ hub.rpk.left # {}
    /\ LET r == CHOOSE x \in hub.rpk.left : \A y \in hub.rpk.left : x <= y
       IN \/ hub' = [hub EXCEPT !.rpk = Idle]
          \/ /\ r \in DOMAIN hub.unarchived
             /\ hub' = [hub EXCEPT
                    !.rpk.left = @ \ {r},
                    !.rpk.dd = extractall(@, r, hub.unarchived[r])]
    /\ UNCHANGED rest

\* repack.py:39-52 `written`: dd_dir holds a file
written(dd) == DOMAIN dd # {}

\* repack.py:39-52, 74-139: package.zip is made of dd_dir; with no file in it
\* repack_all returns, else one commit adds the pack, README.md and
\* index.json, and copies each listed zip to archived/ and deletes it from
\* unarchived/; a commit that names a file that is not there fails
create_commit ==
    /\ hub.rpk.pc = "download"
    /\ hub.rpk.left = {}
    /\ IF written(hub.rpk.dd) /\ hub.rpk.fns \subseteq DOMAIN hub.unarchived
       THEN hub' = [hub EXCEPT
                !.packs = Append(@, hub.rpk.dd),
                !.index = <<Len(hub.packs) + 1>> \o @,
                !.archived = [r \in DOMAIN @ \cup hub.rpk.fns |->
                    IF r \in hub.rpk.fns THEN hub.unarchived[r] ELSE @[r]],
                !.unarchived = [r \in DOMAIN @ \ hub.rpk.fns |-> @[r]],
                !.rpk = Idle]
       ELSE hub' = [hub EXCEPT !.rpk = Idle]
    /\ UNCHANGED rest

HubNext ==
    \/ try_process_url
    \/ url_to_zip
    \/ upload_file
    \/ repack_zips
    \/ download_file
    \/ create_commit

\* the link archive is the one the skb posts feed (lololo.py:10-27)
HubInit == Init /\ crawler = "skb"

SpecHub == HubInit /\ [][HubNext]_vars

----------------------------------------------------------------------------
\* Properties

ExportingCrawlers == {"bh", "rb", "mhs", "skb"}

\* ids of the rows of a record table
RecordIds(recs) == {recs[k].id : k \in 1..Len(recs)}

\* C1: whenever a run of crawl_bh_index, crawl_rb_index, mhs_newest_crawl or
\* skb_newest_crawl has exported, the exported identifier list is strictly
\* ascending (in the order of the stored keys) and holds every identifier the
\* run processed exactly once.
C1_ExportSortedAndComplete ==
    (uploaded /\ crawler \in ExportingCrawlers) =>
        /\ \A k \in 1..(Len(store.ids) - 1) :
                IdLess(crawler, store.ids[k], store.ids[k + 1])
        /\ \A i \in Range(processed) :
                Cardinality({k \in 1..Len(store.ids) : store.ids[k] = i}) = 1

\* a run of a string-keyed crawler exported two ids it processed whose string
\* order is not their numeric order
C1_Witness ==
    /\ uploaded
    /\ crawler \in {"mhs", "skb"}
    /\ \E k \in 1..(Len(store.ids) - 1) :
            /\ store.ids[k] > store.ids[k + 1]
            /\ {store.ids[k], store.ids[k + 1]} \subseteq Range(processed)

\* C2: within one run no identifier is processed (handed to the record
\* accumulator) twice, whichever sources surface it and however often.
C2_ProcessedAtMostOnce ==
    \A j, k \in 1..Len(processed) : j # k => processed[j] # processed[k]

\* the fallback source has surfaced an id that this run had processed before,
\* and the run went on
C2_Witness ==
    /\ dup_skipped
    /\ src # "page"
    /\ pc = "pull"
    /\ Len(processed) >= 1

\* C3: with max_cnt = N >= 1, a run never processes more than N items, and a
\* run without skip outcomes that leaves the crawl loop on the count budget has
\* processed exactly N; for the crawlers that test the count before an item
\* (bh, rb) and for those that test it after (mhs, skb).
C3_ExactlyMaxCount ==
    (crawler \in ExportingCrawlers /\ pc # "start" /\ max_cnt >= 1) =>
        /\ Len(processed) <= max_cnt
        /\ (pc = "final" /\ left_by = "count" /\ cnt = Len(processed))
                => Len(processed) = max_cnt

\* a run with max_cnt = 2 left the loop on the count budget after two items,
\* with no failure and before the deadline
C3_Witness ==
    /\ pc = "final"
    /\ left_by = "count"
    /\ max_cnt = 2
    /\ Len(processed) = 2
    /\ failed = {}
    /\ gone = {}
    /\ ~TimeUp(now)

\* C4: once the elapsed time has reached max_time_limit, a run issues no new
\* candidate fetch (page or detail request) beyond the one in progress.
C4_NoFetchAfterDeadline == late <= 1

\* C5: when a run of crawl_rb_index, mhs_newest_crawl or
\* mhs_project_order_crawl ends normally, every id that got a definitive-skip
\* outcome in it is in the persisted DedupIndex and has no record.
C5_DefinitiveSkipPersisted ==
    (pc = "done" /\ crawler \in {"rb", "mhs", "order"}) =>
        \A x \in gone :
            /\ x \in Range(store.ids)
            /\ x \notin RecordIds(store.records)

\* C6: after an export, an id whose fetch failed transiently in the run is
\* neither in the exported DedupIndex nor in the exported record table.
C6_TransientNotPersisted ==
    uploaded =>
        \A y \in failed :
            /\ y \notin Range(store.ids)
            /\ y \notin RecordIds(store.records)

\* C7: a later run of crawl_bh_index or mhs_newest_crawl, started on a
\* repository that holds identifiers and records, in which the sources surface
\* no unseen id and no request fails, ends normally and leaves the repository
\* (DedupIndex, packs) as it found it.
C7_SecondRunNoOp ==
    (/\ crawler \in {"bh", "mhs"}
     /\ run >= 2
     /\ store0.ids # <<>>
     /\ store0.records # <<>>
     /\ pc \in {"done", "crashed"}
     /\ ~saw_new
     /\ ~faulty) =>
        /\ pc = "done"
        /\ store = store0

\* C8: after an export, the count of every tag of the exported tag table is
\* the number of exported records whose tag set contains the tag's name.
C8_TagCountsMatchRecords ==
    (uploaded /\ crawler \in ExportingCrawlers) =>
        \A k \in 1..Len(store.tags) :
            store.tags[k].count =
                Cardinality({j \in 1..Len(store.records) :
                    store.tags[k].name \in Range(store.records[j].tags)})

\* C9: the random-tag source issues no page request for a tag whose
\* accumulated count, when the tag was drawn, had reached the saturation
\* threshold (count >= ratio * available) or the absolute cap.
C9_NoRequestAtThreshold ==
    [][TagPageRequest =>
        IF crawler = "bh"
        THEN /\ sel_count * BH_SAT_DEN < all_tags_count_map[current_tag] * BH_SAT_NUM
             /\ sel_count < BH_CAP
        ELSE /\ sel_count * RB_SAT_DEN < all_tags_count_map[current_tag] * RB_SAT_NUM
             /\ sel_count < RB_CAP]_vars

\* C10: no step removes an identifier from the persisted DedupIndex, and no
\* step of a run removes one from the in-memory set.
C10_DedupIndexMonotone ==
    [][/\ Range(store.ids) \subseteq Range(store'.ids)
       /\ run' = run => exist_ids \subseteq exist_ids']_vars

\* a second run has exported a DedupIndex that strictly extends the one it
\* loaded
C10_Witness ==
    /\ run = 2
    /\ uploaded
    /\ store0.ids # <<>>
    /\ Range(store0.ids) # Range(store.ids)

\* C11: when two invocations run at the same time on one repository, no
\* export drops an identifier or a record that the repository holds: what
\* either invocation has exported stays in the persisted DedupIndex and
\* Record Table.
C11_NoLastWriterWins ==
    [][/\ Range(store.ids) \subseteq Range(store'.ids)
       /\ RecordIds(store.records) \subseteq RecordIds(store'.records)]_vars

\* the names held by the packs of remote_repo
PackedNames == UNION {remote_repo.packs[k] : k \in DOMAIN remote_repo.packs}

\* C12: the checkpoint is committed together or not at all: after a run of
\* pp.py has ended, normally or by a failure at any point, remote_repo holds
\* no pack whose names are not in exist_names.json, and no exported name in
\* exist_names.json without its pack.
C12_CommittedTogether ==
    pp.pc \in {"done", "crashed"} =>
        PackedNames \subseteq remote_repo.exist_names

\* C13: no answer to the detail request of a single candidate makes the crawl
\* function raise: a step in which the loop body runs on a candidate never
\* ends the run by an exception.
C13_ItemErrorsHandledLocally ==
    [][(NextItem \/ RandomId \/ QueueStep) => pc' # "crashed"]_vars

\* C14: when mhs_newest_crawl has left its crawl loop by IpStopped and has
\* ended, everything it accumulated before is in the repository: every
\* identifier of exist_sids, every record, and a pack for the media files.
C14_AbortExportsProgress ==
    (crawler = "mhs" /\ left_by = "abort" /\ pc = "done") =>
        /\ exist_ids \subseteq Range(store.ids)
        /\ RecordIds(records) \subseteq RecordIds(store.records)
        /\ img_dir # {} => store.packs = store0.packs + 1

\* C15: an answer with status 429 is never surfaced by SkebClient._get: when
\* a call of get_page has raised, the answer that made it raise was not a 429.
C15_RateLimitNeverSurfaced ==
    skeb.pc = "raised" => skeb.status # 429

\* C16: a sequential pager ends at the first empty page: after a listing
\* request that was answered, without a failure, by a page of zero items, the
\* pager is in no position to issue another listing request.
C16_PagerEndsOnEmptyPage ==
    [][(PageRequest /\ ~faulty /\ ~faulty' /\ lst' = <<>>) =>
            ~(/\ pc' = "pull"
              /\ src' = "page"
              /\ crawler = "mhs" => page' <= max_page_limit
              /\ crawler = "skb" => taken' < max_count_limit)]_vars

\* C17: a listing request of the sequential pager never raises, and one that
\* fails (a network error, a malformed payload, a status other than 2xx that
\* is neither the rate-limit nor the ban status) ends the pager: the pager is
\* in no position to issue another listing request.
C17_FailedPageEndsPager ==
    [][PageRequest =>
        /\ pc' # "crashed"
        /\ (crawler # "skb" /\ ~faulty /\ faulty' /\ retries' = 0) =>
                ~(/\ pc' = "pull"
                  /\ src' = "page"
                  /\ crawler = "mhs" => page' <= max_page_limit)]_vars

\* C18: when a source of the chain has nothing more to yield, it ends without
\* an error: the run goes on with the next source or leaves the crawl loop
\* for the code after it; in particular the random-tag source of bh and rb
\* when its pool of tags is used up.
C18_ExhaustedSourceEndsNormally ==
    [][SourceEnd => pc' \in {"pull", "final"}]_vars

\* C19: the load of the DedupIndex never ends in an error, and from a missing
\* or a malformed exist_ids.json it yields the empty set.
C19_LoadNeverFails ==
    /\ load.pc # "raised"
    /\ (load.pc = "loaded" /\ ~(load.exists /\ SetOfJson(load.text).ok))
            => load.exist_ids = {}

\* C20: a first run, on a repository without persisted artifacts, called with
\* the default arguments (use_random = True, quit_page_when_exist = True),
\* builds its source chain and enters the crawl loop without an error: unless
\* a request fails, the call and the first access do not end the run by an
\* exception.
C20_FirstRunStarts ==
    [][(/\ store = EmptyStore
        /\ use_random' /\ quit_page_when_exist'
        /\ StartRun \/ (Access /\ ~faulty')) => pc' # "crashed"]_vars

\* C21: when skb_newest_crawl has exported, queue.json holds, in their order,
\* exactly the references of the work queue that were not yielded to the crawl
\* loop: the queue without as many leading references as the loop has visited.
C21_QueueTruncatedToUnvisited ==
    (crawler = "skb" /\ uploaded) =>
        LET visited == inc_v + (IF q_pending THEN 1 ELSE 0)
        IN store.queue = SubSeq(queue, visited + 1, Len(queue))

\* the names of a tag table are pairwise different when lowered
NoCaseDup(rows) ==
    \A j, k \in 1..Len(rows) :
        j # k => Lower(rows[j].name) # Lower(rows[k].name)

\* every tag of every record is spelled as a name of the tag table
SpelledAsTable(recs, rows) ==
    \A r \in 1..Len(recs) : \A t \in Range(recs[r].tags) :
        \E k \in 1..Len(rows) : rows[k].name = t

\* C22: in skb_newest_crawl the tag table, in memory and in the exported
\* tags.csv, never holds two names that are equal when lowered, and every tag
\* stored on a record is spelled exactly as a name of the table.
C22_TagsMergedIgnoringCase ==
    crawler = "skb" =>
        /\ NoCaseDup(all_tags)
        /\ NoCaseDup(store.tags)
        /\ SpelledAsTable(records, all_tags)
        /\ SpelledAsTable(store.records, store.tags)

\* a post whose tag list names one tag in two casings has been recorded and
\* exported: both tokens are stored in the casing seen first
C22_Witness ==
    /\ crawler = "skb"
    /\ \E r \in 1..Len(store.records) :
            /\ Range(ItemTags(store.records[r].id)) = {"a", "A"}
            /\ store.records[r].tags = <<"a", "a">>
    /\ \E k \in 1..Len(store.tags) : store.tags[k].name = "a"

\* the key (-count, name) of a row, as a comparison
CountThenName(x, y) ==
    \/ x.count > y.count
    \/ x.count = y.count /\ NameRank(x.name) <= NameRank(y.name)

\* 1 if the row is a free-form tag of mhs else 0
IsCustom(x) == IF TagType(x.name) = "custom_tag" THEN 1 ELSE 0

\* C23 as stated: every two adjacent rows of the exported tags.csv are in
\* the order of (count descending, name); in the file of mhs_newest_crawl a
\* curated tag precedes a custom tag, and rows of the same class are in the
\* order of (count descending, name).
C23_SortedByCompositeKey ==
    \A k \in 1..(Len(store.tags) - 1) :
        LET x == store.tags[k]
            y == store.tags[k + 1]
        IN IF crawler = "mhs"
           THEN \/ IsCustom(x) < IsCustom(y)
                \/ IsCustom(x) = IsCustom(y) /\ CountThenName(x, y)
           ELSE CountThenName(x, y)

\* C23 amended: in the file of mhs_newest_crawl a curated tag precedes a
\* custom tag, adjacent curated rows are in the order of (type, id) whatever
\* their counts, and adjacent custom rows in the order of (count descending,
\* id); in the files of bh, rb and skb adjacent rows are in the order of
\* (count descending, name).
C23_SortedByCodeKey ==
    \A k \in 1..(Len(store.tags) - 1) :
        LET x == store.tags[k]
            y == store.tags[k + 1]
        IN IF crawler = "mhs"
           THEN \/ IsCustom(x) < IsCustom(y)
                \/ /\ IsCustom(x) = 1 /\ IsCustom(y) = 1
                   /\ CountThenName(x, y)
                \/ /\ IsCustom(x) = 0 /\ IsCustom(y) = 0
                   /\ \/ TypeRank(TagType(x.name)) < TypeRank(TagType(y.name))
                      \/ /\ TagType(x.name) = TagType(y.name)
                         /\ NameRank(x.name) <= NameRank(y.name)
           ELSE CountThenName(x, y)

\* mhs_newest_crawl has exported a tags.csv of two curated rows in which the
\* row of the smaller count comes first
C23_Witness ==
    /\ crawler = "mhs"
    /\ uploaded
    /\ Len(store.tags) >= 2
    /\ IsCustom(store.tags[1]) = 0 /\ IsCustom(store.tags[2]) = 0
    /\ store.tags[1].count < store.tags[2].count

\* C24: no pack path of the remote repository of pp.py is uploaded to more
\* than once, over any sequence of runs, a run that stopped between the
\* upload of a pack and the write of exist_names.json included.
C24_PackWrittenOnce ==
    \A k \in DOMAIN remote_repo.uploads : remote_repo.uploads[k] <= 1

\* C25: while a crawl loop runs, and when it has been left, the processed
\* counter is the number of identifiers that are in the dedup index and were
\* not in it when the run loaded it; and a candidate of the page source that
\* is in the dedup index changes neither the counter, nor the index, nor the
\* record table.
C25_SkippedNotCounted ==
    [][/\ pc' \in {"pull", "final"} =>
            cnt' = Cardinality(exist_ids' \ Range(store0'.ids))
       /\ (lst # <<>> /\ Head(lst) \in exist_ids /\ NextItem) =>
            UNCHANGED <<cnt, exist_ids, records>>]_vars

\* in a run of bh, rb or mhs that has counted an identifier, a candidate
\* processed earlier in the run came up again and was skipped
C25_Witness ==
    /\ crawler \in {"bh", "rb", "mhs"}
    /\ pc = "pull"
    /\ dup_skipped
    /\ cnt >= 1
    /\ cnt = Cardinality(exist_ids \ Range(store0.ids))

\* C26: in mhs_newest_crawl the calls of MHSSession.refresh made for 403
\* answers with no other answer in between never number more than the budget
\* of MAX_REFRESH_TRY.
C26_RotationsWithinBudget == sess.rot <= MAX_REFRESH_TRY

\* C27: in mhs_newest_crawl, whenever a candidate is counted, the counter is
\* then a multiple of REFRESH_EVERY and the loop goes on to another candidate,
\* the step has called MHSSession.refresh for this reason; and a step calls it
\* for this reason only when it has counted a candidate and the counter is
\* then a positive multiple of REFRESH_EVERY.
C27_RefreshEveryTen ==
    [][LET counted == sess'.current_count = sess.current_count + 1
           multiple == /\ sess'.current_count > 0
                       /\ sess'.current_count % REFRESH_EVERY = 0
       IN /\ (counted /\ multiple /\ sess'.pc = "pull") =>
                sess'.refreshed = "every"
          /\ sess'.refreshed = "every" => (counted /\ multiple)]_vars

\* the tenth candidate has been counted, the session was refreshed for it and
\* the loop goes on
C27_Witness ==
    /\ sess.pc = "pull"
    /\ sess.current_count = REFRESH_EVERY
    /\ sess.refreshed = "every"

\* the tag pager, the random ids and the work queue are pulled only when the
\* sequential pager has ended, and the pager is not pulled again afterwards
FallbackAfterPrimary ==
    /\ src = "page" => ~(PickTag \/ TagPageRequest \/ RandomId \/ QueueStep)
    /\ src = "page" => UNCHANGED <<inc_v, q_pending, current_tag>>
    /\ (pc = "pull" /\ pc' = "pull" /\ src # "page") => src' # "page"

\* C28 as stated: the fallback source is pulled only after the sequential
\* pager has ended, the pager is never pulled again afterwards, and no id that
\* the pager yielded to the loop in this run is marked seen when a fallback
\* source offers it.
C28_PriorityOrder ==
    [][/\ FallbackAfterPrimary
       /\ (pc = "pull" /\ src # "page") =>
            (exist_ids' \ exist_ids) \cap page_missed = {}]_vars

\* C28 amended: the fallback source is pulled only after the sequential pager
\* has ended and the pager is never pulled again afterwards; in crawl_bh_index
\* and skb_newest_crawl every unseen id the pager yields is marked seen by
\* the loop body run for it, so none is left for the fallback source.
C28_PriorityOrderBhSkb ==
    [][/\ FallbackAfterPrimary
       /\ crawler \in {"bh", "skb"} => page_missed' = {}]_vars

\* skb_newest_crawl has processed a post yielded by the listing, and the work
\* queue has then yielded the same post, which was skipped
C28_Witness ==
    /\ crawler = "skb"
    /\ pc = "pull"
    /\ src = "queue"
    /\ q_pending
    /\ dup_skipped
    /\ inc_v < Len(queue)
    /\ queue[inc_v + 1] \in Range(processed)

\* C29: in every crawler whose loop body issues a detail request, a step that
\* has processed a candidate, and so has requested its detail, has acquired
\* the limiter of the loop body before the request.
C29_LimiterBeforeDetail ==
    [][(crawler # "bh" /\ Len(processed') > Len(processed)) =>
            detail_limiter(crawler) # NoTag]_vars

\* C30: while the crawl loop of any crawler runs, and when it has been left,
\* the identifiers that are in the dedup index and were not in it when the
\* run loaded it number at most max_cnt, for every max_cnt from 0 on.
C30_AtMostMaxCount ==
    pc \in {"pull", "final"} =>
        Cardinality(exist_ids \ Range(store0.ids)) <= max_cnt

\* C31: when mhs_newest_crawl or skb_newest_crawl has exported, every record
\* the run appended names a media file that is in the directory the run
\* packed.
C31_RecordFileInPack ==
    (crawler \in {"mhs", "skb"} /\ uploaded) =>
        \A i \in RecordIds(store.records) \ RecordIds(store0.records) :
            i \in img_dir

\* the rows of a record table have pairwise different ids
OneRowPerId(recs) ==
    \A j, k \in 1..Len(recs) : j # k => recs[j].id # recs[k].id

\* C32: in bh, rb, mhs and skb, once the run has loaded its state, between
\* any two candidates and when the loop has been left, every id with a row in
\* the record table is in the dedup index and no id has two rows; the same
\* holds of the record table and the id list in the repository.
C32_RecordsWithinDedupIndex ==
    /\ (crawler # "order" /\ pc \in {"pull", "final"}) =>
            /\ RecordIds(records) \subseteq exist_ids
            /\ OneRowPerId(records)
    /\ crawler # "order" =>
            /\ RecordIds(store.records) \subseteq Range(store.ids)
            /\ OneRowPerId(store.records)

\* a later run has loaded a record table with a row and has appended the row
\* of another id to it
C32_Witness ==
    /\ crawler \in {"bh", "rb", "mhs", "skb"}
    /\ pc = "pull"
    /\ store0.records # <<>>
    /\ Len(records) > Len(store0.records)
    /\ RecordIds(records) \subseteq exist_ids

\* the references of a work queue are pairwise different
NoDupQueue(q) == \A j, k \in 1..Len(q) : j # k => q[j] # q[k]

\* C33: in skb_newest_crawl neither the work queue in memory nor queue.json
\* ever holds a reference twice, and a reference that a pass of the loop body
\* adds to the queue was, before that pass, neither in the dedup index nor in
\* the queue.
C33_QueueWithoutDuplicates ==
    [][crawler = "skb" =>
        /\ NoDupQueue(queue')
        /\ NoDupQueue(store'.queue)
        /\ (pc = "pull" /\ pc' # "crashed") =>
                \A x \in Range(queue') \ Range(queue) :
                    x \notin exist_ids /\ x \notin queue_suit_ids]_vars

\* skb_newest_crawl has processed a post and has queued a similar work of it
C33_Witness ==
    /\ crawler = "skb"
    /\ pc = "pull"
    /\ processed # <<>>
    /\ Len(queue) > Len(store0.queue)
    /\ Range(queue) \subseteq queue_suit_ids

\* C34: in the random-tag source of bh and rb the pool only shrinks; a tag
\* is selected for paging only while it is in the pool and not saturated at
\* its live accumulated count; a pass that finds its tag saturated removes
\* exactly that tag; and a pass that ends the paging of its tag removes
\* exactly that tag, so no tag is selected twice in a run.
C34_TagSelectedOnce ==
    [][(crawler \in IndexCrawlers /\ pc = "pull" /\ src = "random"
            /\ pc' = "pull" /\ src' = "random") =>
        /\ tag_pool' \subseteq tag_pool
        /\ current_tag' # NoTag => current_tag' \in tag_pool'
        /\ (current_tag = NoTag /\ current_tag' # NoTag) =>
                /\ current_tag' \in tag_pool
                /\ tag_pool' = tag_pool
                /\ sel_count' = tags[current_tag']
                /\ ~Saturated(crawler, current_tag', tags[current_tag'])
        /\ (current_tag = NoTag /\ tag_pool' # tag_pool) =>
                /\ current_tag' = NoTag
                /\ \E t \in tag_pool :
                        /\ tag_pool' = tag_pool \ {t}
                        /\ Saturated(crawler, t, tags[t])
        /\ current_tag # NoTag =>
                \/ current_tag' = current_tag /\ tag_pool' = tag_pool
                \/ current_tag' = NoTag /\ tag_pool' = tag_pool \ {current_tag}]_vars

\* a tag was paged and removed, and another tag is being paged
C34_Witness ==
    /\ crawler \in IndexCrawlers
    /\ pc = "pull"
    /\ src = "random"
    /\ current_tag # NoTag
    /\ processed # <<>>
    /\ \E t \in TagNames \ tag_pool :
            /\ all_tags_count_map[t] >= 1
            /\ ~Saturated(crawler, t, tags[t])

Last(s) == s[Len(s)]

\* C35: the first page is requested at offset 0 and each later one at the
\* previous offset plus the number of items the previous page returned, after
\* all of them were yielded; the items of a page are yielded one by one in
\* the page's order; an empty page ends the iteration; list_newest_posts
\* yields at most `limit` posts and requests no page once it has yielded
\* `limit` of them.
C35_PagesByOffset ==
    [][/\ Len(skeb'.requested) > Len(skeb.requested) =>
            /\ skeb'.requested = Append(skeb.requested,
                    IF skeb.requested = <<>> THEN 0
                    ELSE Last(skeb.requested) + skeb.n_items)
            /\ skeb.items = <<>>
            /\ Len(skeb.yielded) < skeb.limit
            /\ skeb'.items = <<>> => skeb'.pc = "done"
            /\ skeb'.yielded = skeb.yielded
       /\ skeb'.yielded # skeb.yielded =>
            /\ skeb.items # <<>>
            /\ skeb'.yielded = Append(skeb.yielded, Head(skeb.items))
            /\ skeb'.items = Tail(skeb.items)
            /\ skeb'.requested = skeb.requested
       /\ Len(skeb'.yielded) <= skeb'.limit
       /\ \A k \in 1..Len(skeb'.yielded) : skeb'.yielded[k] = k]_vars

\* a listing that took two pages and ended at the limit
C35_Witness ==
    /\ skeb.pc = "done"
    /\ Len(skeb.requested) >= 2
    /\ skeb.limit >= 3
    /\ Len(skeb.yielded) = skeb.limit

\* <resource_id>.zip of resource r is under unarchived/ or archived/
ZipExists(h, r) == ZipOf(h.unarchived, r) # NoZip \/ ZipOf(h.archived, r) # NoZip

\* a step of try_process_url that downloads, and one that uploads
Downloads == hub.tpu.pc = "fetch" /\ hub'.tpu.pc # "fetch"
Uploads == hub.tpu.pc = "upload" /\ hub'.tpu.pc # "upload"
\* a call of try_process_url that returns without a download
Skips == /\ hub.tpu.pc = "idle"
         /\ hub'.tpu.pc = "idle"
         /\ hub'.rpk = hub.rpk

NoDupUploads(u) == \A j, k \in 1..Len(u) : j # k => u[j] # u[k]

\* the download and the upload of try_process_url are made only for a
\* resource without a zip under unarchived/ or archived/; the upload puts a
\* non-empty archive under unarchived/ and nothing else, and no resource is
\* uploaded twice
UploadsOnlyNew ==
    /\ Downloads => ~ZipExists(hub, hub.tpu.rid)
    /\ Uploads =>
        /\ ~ZipExists(hub, hub.tpu.rid)
        /\ hub.tpu.zip.names # {}
        /\ \A r \in Rids :
                ZipOf(hub'.unarchived, r) =
                    IF r = hub.tpu.rid THEN hub.tpu.zip
                    ELSE ZipOf(hub.unarchived, r)
        /\ hub'.archived = hub.archived
        /\ hub'.packs = hub.packs
        /\ hub'.index = hub.index
    /\ NoDupUploads(hub'.uploads)

\* C36: try_process_url downloads and uploads only a resource without a zip
\* under unarchived/ or archived/, uploads it at most once, non-empty and
\* under unarchived/ only; a call for a link with an existing zip or for a
\* link no site matches leaves the repository unchanged.
C36_SkipLeavesRepositoryUnchanged ==
    [][/\ UploadsOnlyNew
       /\ Skips => Files(hub') = Files(hub)]_vars

\* C36 (amended): as above, but a call that skips leaves the files under
\* unarchived/, archived/ and packs/ and index.json unchanged, and may have
\* created the repository when it did not exist.
C36_SkipLeavesZipsUnchanged ==
    [][/\ UploadsOnlyNew
       /\ Skips =>
            /\ hub'.unarchived = hub.unarchived
            /\ hub'.archived = hub.archived
            /\ hub'.packs = hub.packs
            /\ hub'.index = hub.index
            /\ hub.exists => hub'.exists]_vars

\* a resource was uploaded once and repacked, and the upload of another one
\* is about to be made
C36_Witness ==
    /\ hub.tpu.pc = "upload"
    /\ \E r \in Rids : r \in Range(hub.uploads) /\ ZipOf(hub.archived, r) # NoZip
    /\ ~ZipExists(hub, hub.tpu.rid)

\* the commit of repack_all
Commits == Len(hub'.packs) = Len(hub.packs) + 1

\* the resource whose bytes the file of name e in directory dd holds
HeldBy(dd, e) == IF e \in DOMAIN dd THEN dd[e] ELSE NoRid

\* C37: under any interleaving of repack_all with try_process_url, a zip
\* leaves unarchived/ only in the commit of repack_all, and then the pack
\* that commit adds holds every entry of the zip with the bytes of the zip's
\* resource and archived/ holds a copy of the zip; a zip under unarchived/
\* that repack_all did not list stays as it is; and a repack_all that ends
\* without a commit leaves the repository unchanged.
C37_DeletedZipsInPack ==
    [][/\ \A r \in DOMAIN hub.unarchived :
            ZipOf(hub'.unarchived, r) # hub.unarchived[r] =>
                /\ Commits
                /\ r \in hub.rpk.fns
                /\ r \notin DOMAIN hub'.unarchived
                /\ ZipOf(hub'.archived, r) = hub.unarchived[r]
                /\ \A n \in hub.unarchived[r].names :
                        HeldBy(Last(hub'.packs),
                               <<hub.unarchived[r].prefix, n>>) = r
       /\ (hub.rpk.pc # "idle" /\ hub'.rpk.pc = "idle" /\ ~Commits) =>
                Files(hub') = Files(hub)]_vars

====
